---- MODULE Spec2Model ----
(***************************************************************************)
(* State-machine model of the simulation core of async-4x-sim:             *)
(* sim/turn_engine.py (GameState, order queue, submit pipeline),           *)
(* sim/pathfinding.py, sim/map.py, sim/hexgrid.py, sim/units.py,           *)
(* sim/targeting.py and sim/combat/resolver.py + utils.py.                 *)
(*                                                                         *)
(* A Hex is the pair <<q, r>>.  A submit_orders call is one synchronous    *)
(* call; the model follows its control flow with the position variable pc  *)
(* (one step per order, per combat volley, per phase), and no other        *)
(* operation can run while pc # "idle".  GameState.log is an append-only   *)
(* copy of messages and is not modelled; the list a call returns is the    *)
(* variable events.                                                        *)
(***************************************************************************)
EXTENDS Integers, Sequences, FiniteSets, TLC

\* ------------------------------------------------------------------
\* Bounds of the model
\* ------------------------------------------------------------------
MapQMax == 2
MapRMax == 1
MaxQueued == 2

\* ------------------------------------------------------------------
\* Program constants
\* ------------------------------------------------------------------
max_rounds == 50
DieSides == 10
NoHex == <<>>

\* ------------------------------------------------------------------
\* Generic helpers
\* ------------------------------------------------------------------
Max2(a, b) == IF a >= b THEN a ELSE b

Abs(x) == IF x < 0 THEN -x ELSE x

RECURSIVE SeqFilterIn(_, _)
SeqFilterIn(s, S) ==
    IF s = <<>> THEN <<>>
    ELSE IF Head(s) \in S THEN <<Head(s)>> \o SeqFilterIn(Tail(s), S)
    ELSE SeqFilterIn(Tail(s), S)

SeqToSet(s) == {s[i] : i \in 1..Len(s)}

\* Remove key k from a function (dict.pop / del).
DictDel(f, k) == [x \in (DOMAIN f) \ {k} |-> f[x]]

\* dict[k] = v (insert or overwrite).
DictPut(f, k, v) == [x \in (DOMAIN f) \cup {k} |-> IF x = k THEN v ELSE f[x]]

\* ------------------------------------------------------------------
\* sim/hexgrid.py
\* ------------------------------------------------------------------
hex_distance(a, b) ==
    LET ax == a[1]
        az == a[2]
        ay == 0 - ax - az
        bx == b[1]
        bz == b[2]
        by == 0 - bx - bz
    IN Max2(Max2(Abs(ax - bx), Abs(ay - by)), Abs(az - bz))

\* ------------------------------------------------------------------
\* sim/map.py : GameMap is the record
\*   [q_min, q_max, r_min, r_max, blocked, explored, hex_contents]
\* ------------------------------------------------------------------
in_bounds(gm, h) ==
    gm.q_min <= h[1] /\ h[1] <= gm.q_max /\ gm.r_min <= h[2] /\ h[2] <= gm.r_max

is_blocked(gm, h) == h \in gm.blocked

is_passable(gm, h) == in_bounds(gm, h) /\ ~is_blocked(gm, h)

block(gm, h) ==
    IF in_bounds(gm, h) THEN [gm EXCEPT !.blocked = @ \cup {h}] ELSE gm

is_explored(gm, h) == h \in gm.explored

\* Faulty variant: the hex is not marked.
set_explored_never(gm, h) == gm

set_explored(gm, h) ==
    IF in_bounds(gm, h) THEN [gm EXCEPT !.explored = @ \cup {h}] ELSE gm

set_hex_content(gm, h, content) ==
    [gm EXCEPT !.hex_contents = DictPut(@, h, content)]

get_hex_content(gm, h) ==
    IF h \in DOMAIN gm.hex_contents THEN gm.hex_contents[h] ELSE "CLEAR"

\* ------------------------------------------------------------------
\* sim/pathfinding.py
\* ------------------------------------------------------------------
DIRS == << <<1, 0>>, <<1, -1>>, <<0, -1>>, <<-1, 0>>, <<-1, 1>>, <<0, 1>> >>

\* Faulty variant: the neighbours in the opposite order.
ordered_neighbors_reversed(h) ==
    [i \in 1..6 |-> <<h[1] + DIRS[7 - i][1], h[2] + DIRS[7 - i][2]>>]

ordered_neighbors(h) == [i \in 1..6 |-> <<h[1] + DIRS[i][1], h[2] + DIRS[i][2]>>]

\* The inner "for nxt in ordered_neighbors(current)" loop of bfs_path.
RECURSIVE BfsExpand(_, _, _, _, _)
BfsExpand(gm, current, i, frontier, came_from) ==
    IF i > 6 THEN [frontier |-> frontier, came_from |-> came_from]
    ELSE LET nxt == ordered_neighbors(current)[i] IN
         IF ~is_passable(gm, nxt) \/ nxt \in DOMAIN came_from
         THEN BfsExpand(gm, current, i + 1, frontier, came_from)
         ELSE BfsExpand(gm, current, i + 1, Append(frontier, nxt),
                        DictPut(came_from, nxt, current))

\* The "while frontier" loop of bfs_path; returns came_from.
RECURSIVE BfsLoop(_, _, _, _)
BfsLoop(gm, goal, frontier, came_from) ==
    IF frontier = <<>> THEN came_from
    ELSE LET current == Head(frontier) IN
         IF current = goal THEN came_from
         ELSE LET e == BfsExpand(gm, current, 1, Tail(frontier), came_from)
              IN BfsLoop(gm, goal, e.frontier, e.came_from)

\* Path reconstruction (path_rev reversed): start excluded, goal included.
RECURSIVE BfsReconstruct(_, _, _)
BfsReconstruct(came_from, start, cur) ==
    IF cur = start THEN <<>>
    ELSE Append(BfsReconstruct(came_from, start, came_from[cur]), cur)

\* bfs_path: [found |-> FALSE] stands for None.
bfs_path(gm, start, goal) ==
    IF start = goal THEN [found |-> TRUE, path |-> <<>>]
    ELSE IF ~is_passable(gm, start) THEN [found |-> FALSE, path |-> <<>>]
    ELSE IF ~is_passable(gm, goal) THEN [found |-> FALSE, path |-> <<>>]
    ELSE LET came_from == BfsLoop(gm, goal, <<start>>, (start :> NoHex)) IN
         IF goal \notin DOMAIN came_from THEN [found |-> FALSE, path |-> <<>>]
         ELSE [found |-> TRUE, path |-> BfsReconstruct(came_from, start, goal)]

\* ------------------------------------------------------------------
\* sim/units.py : unit types and unit groups
\*
\* A UnitType is a record; a UnitGroup is the record
\*   [owner, unit_type, count, location, tactics, cloak_bonus,
\*    sensors_bonus, attack_bonus, defense_bonus, damage, cargo_minerals]
\* whose unit_type field names an entry of UnitTypes.  The registry
\* unit_groups is a function group_id -> UnitGroup whose domain is the set
\* of live ids; a Python dict iterates in insertion order, which for the
\* scenarios below is GroupOrder (deleting a key keeps the others' order).
\* ------------------------------------------------------------------
UnitType(movement, is_combatant, initiative, attack, defense, hull, builtin_cloak, builtin_sensors, can_colonize, can_mine) ==
    [movement |-> movement, is_combatant |-> is_combatant,
     initiative |-> initiative, attack |-> attack, defense |-> defense,
     hull |-> hull, builtin_cloak |-> builtin_cloak,
     builtin_sensors |-> builtin_sensors, can_colonize |-> can_colonize,
     can_mine |-> can_mine]

\* Stat blocks built with the UnitType constructor.  Scout, Decoy,
\* ColonyShip and MiningShip are those of sim/unit_types.py; Battleship is
\* the fast battleship of the test fixtures (movement 3); Raider is the
\* cloaked raider with movement 2 and hull 1, so that its path has a hex
\* to pass through; Picket is a combatant whose shots always hit
\* (attack 1, so to-hit 1).
UnitTypes ==
    [ Battleship  |-> UnitType(3, TRUE, "B", 4, 3, 3, 0, 0, FALSE, FALSE),
      Raider      |-> UnitType(2, TRUE, "D", 4, 0, 1, 1, 0, FALSE, FALSE),
      Picket      |-> UnitType(1, TRUE, "E", 1, 0, 1, 0, 0, FALSE, FALSE),
      Scout       |-> UnitType(1, TRUE, "E", 3, 0, 1, 0, 0, FALSE, FALSE),
      Decoy       |-> UnitType(1, FALSE, "E", 0, 0, 1, 0, 0, FALSE, FALSE),
      ColonyShip  |-> UnitType(1, FALSE, "E", 0, 0, 1, 0, 0, TRUE, FALSE),
      MiningShip  |-> UnitType(1, FALSE, "E", 0, 0, 1, 0, 0, FALSE, TRUE) ]

UnitGroup(owner, unit_type, count, location) ==
    [owner |-> owner, unit_type |-> unit_type, count |-> count,
     location |-> location, tactics |-> 0, cloak_bonus |-> 0,
     sensors_bonus |-> 0, attack_bonus |-> 0, defense_bonus |-> 0,
     damage |-> 0, cargo_minerals |-> 0]

\* Derived read-only properties of UnitGroup.
g_initiative(g) == UnitTypes[g.unit_type].initiative
g_attack(g) == UnitTypes[g.unit_type].attack + g.attack_bonus
g_defense(g) == UnitTypes[g.unit_type].defense + g.defense_bonus
g_hull(g) == Max2(1, UnitTypes[g.unit_type].hull)
cloak_level(g) == UnitTypes[g.unit_type].builtin_cloak + g.cloak_bonus
sensor_level(g) == UnitTypes[g.unit_type].builtin_sensors + g.sensors_bonus
g_movement(g) == UnitTypes[g.unit_type].movement
is_combatant(g) == UnitTypes[g.unit_type].is_combatant

\* Players in turn order (GameState.players).
Players == <<"A", "B">>

PlayerSet == SeqToSet(Players)

\* Insertion order of the registry, and the rank of a group id in the
\* lexicographic order of the id strings (str comparison in sort keys).
GroupOrder == <<"A1", "A2", "A3", "B1", "B2">>

GroupIds == SeqToSet(GroupOrder)

GroupRank == [gid \in GroupIds |->
                 CHOOSE i \in 1..Len(GroupOrder) : GroupOrder[i] = gid]

\* ------------------------------------------------------------------
\* State
\* ------------------------------------------------------------------
VARIABLES
    active_player,            \* GameState.active_player
    turn_number,              \* GameState.turn_number
    unit_groups,              \* GameState.unit_groups
    colonies,                 \* GameState.colonies : Hex -> Colony
    game_map,                 \* GameState.game_map
    revealed_to,              \* viewer -> set of group ids
    marker_for_viewer,        \* viewer -> (group id -> n), n standing for "Mn"
    group_for_viewer_marker,  \* viewer -> (n -> group id)
    next_marker_index,        \* viewer -> next n
    pending_orders,           \* player -> sequence of MoveOrder
    events,                   \* the value returned by the last call
    pc,                       \* position inside submit_orders
    order_idx,                \* submit_orders: index of the next order
    combat_sites,             \* submit_orders: combat_sites
    battles,                  \* submit_orders: hexes of the battles still to resolve
    round_num,                \* resolve_combat: round_num
    volley_num,               \* resolve_combat: volley_num
    roster,                   \* resolve_combat: roster
    queued,                   \* number of orders queued so far (bounded by MaxQueued)
    hist,                     \* history of the current call (observation only)
    twin                      \* a second execution of resolve_combat (replay)

gameVars == <<active_player, turn_number, unit_groups, colonies, game_map,
              revealed_to, marker_for_viewer, group_for_viewer_marker,
              next_marker_index>>

fogVars == <<revealed_to, marker_for_viewer, group_for_viewer_marker,
             next_marker_index>>

callVars == <<order_idx, combat_sites, battles, round_num, volley_num, roster>>

vars == <<active_player, turn_number, unit_groups, colonies, game_map,
          revealed_to, marker_for_viewer, group_for_viewer_marker,
          next_marker_index, pending_orders, events, pc,
          order_idx, combat_sites, battles, round_num, volley_num, roster,
          queued, hist, twin>>

\* ------------------------------------------------------------------
\* sim/turn_engine.py : registry helpers
\* ------------------------------------------------------------------
\* Live group ids in registry (dict) order.
GroupSeq(ug) == SeqFilterIn(GroupOrder, DOMAIN ug)

\* groups_at: ids of the groups located at hex h, in registry order.
groups_at(ug, h) == SeqFilterIn(GroupOrder, {x \in DOMAIN ug : ug[x].location = h})

remove_group(ug, gid) == IF gid \in DOMAIN ug THEN DictDel(ug, gid) ELSE ug

_all_noncombat(ug, gids) == \A x \in gids : ~is_combatant(ug[x])

\* ------------------------------------------------------------------
\* sim/turn_engine.py : fog of war.  The fog tables travel together as
\* the record [revealed_to, marker_for_viewer, group_for_viewer_marker,
\* next_marker_index]; each table is created lazily per viewer.
\* ------------------------------------------------------------------
Fog == [revealed_to |-> revealed_to,
        marker_for_viewer |-> marker_for_viewer,
        group_for_viewer_marker |-> group_for_viewer_marker,
        next_marker_index |-> next_marker_index]

EmptyDict == [x \in {} |-> 0]

_ensure_viewer_tables(fog, viewer) ==
    [revealed_to |->
        IF viewer \in DOMAIN fog.revealed_to THEN fog.revealed_to
        ELSE DictPut(fog.revealed_to, viewer, {}),
     marker_for_viewer |->
        IF viewer \in DOMAIN fog.marker_for_viewer THEN fog.marker_for_viewer
        ELSE DictPut(fog.marker_for_viewer, viewer, EmptyDict),
     group_for_viewer_marker |->
        IF viewer \in DOMAIN fog.group_for_viewer_marker
        THEN fog.group_for_viewer_marker
        ELSE DictPut(fog.group_for_viewer_marker, viewer, EmptyDict),
     next_marker_index |->
        IF viewer \in DOMAIN fog.next_marker_index THEN fog.next_marker_index
        ELSE DictPut(fog.next_marker_index, viewer, 1)]

\* Faulty variant: the group is marked revealed, its marker stays.
reveal_keeps_marker(fog, viewer, gid) ==
    LET f == _ensure_viewer_tables(fog, viewer)
    IN [f EXCEPT !.revealed_to[viewer] = @ \cup {gid}]

\* Faulty variant: the marker is taken from the forward table only.
reveal_forward_only(fog, viewer, gid) ==
    LET f == _ensure_viewer_tables(fog, viewer)
    IN [f EXCEPT
          !.revealed_to[viewer] = @ \cup {gid},
          !.marker_for_viewer[viewer] = IF gid \in DOMAIN @ THEN DictDel(@, gid) ELSE @]

is_revealed(fog, viewer, gid) ==
    gid \in _ensure_viewer_tables(fog, viewer).revealed_to[viewer]

reveal_group_to(fog, viewer, gid) ==
    LET f == _ensure_viewer_tables(fog, viewer)
        has == gid \in DOMAIN f.marker_for_viewer[viewer]
        m == IF has THEN f.marker_for_viewer[viewer][gid] ELSE 0
    IN [f EXCEPT
          !.revealed_to[viewer] = @ \cup {gid},
          !.marker_for_viewer[viewer] = IF has THEN DictDel(@, gid) ELSE @,
          !.group_for_viewer_marker[viewer] =
              IF has /\ m \in DOMAIN @ THEN DictDel(@, m) ELSE @]

\* The "for g in groups" loop of reveal_hex_to_players for one viewer.
RECURSIVE RevealGroups(_, _, _)
RevealGroups(fog, viewer, gids) ==
    IF gids = <<>> THEN fog
    ELSE RevealGroups(
            IF ~is_revealed(fog, viewer, Head(gids))
            THEN reveal_group_to(fog, viewer, Head(gids))
            ELSE _ensure_viewer_tables(fog, viewer),
            viewer, Tail(gids))

\* Faulty variant: only the first viewer gets the hex revealed.
reveal_hex_to_first_viewer(fog, ug, hex_, viewers) ==
    IF viewers = <<>> THEN [fog |-> fog, events |-> <<>>]
    ELSE LET v == Head(viewers)
             groups == groups_at(ug, hex_)
         IN [fog |-> RevealGroups(_ensure_viewer_tables(fog, v), v, groups),
             events |-> IF groups # <<>>
                        THEN << <<"REVEAL", v, hex_,
                                  [i \in 1..Len(groups) |->
                                      <<groups[i], ug[groups[i]].count>>]>> >>
                        ELSE <<>>]

\* reveal_hex_to_players: viewers is a sequence; returns the new fog tables
\* and the event lines, one <<"REVEAL", viewer, hex, summary>> per viewer
\* when the hex holds groups (summary = <<group id, count>> per group).
RECURSIVE reveal_hex_to_players(_, _, _, _)
reveal_hex_to_players(fog, ug, hex_, viewers) ==
    IF viewers = <<>> THEN [fog |-> fog, events |-> <<>>]
    ELSE LET v == Head(viewers)
             groups == groups_at(ug, hex_)
             f1 == RevealGroups(_ensure_viewer_tables(fog, v), v, groups)
             line == IF groups # <<>>
                     THEN << <<"REVEAL", v, hex_,
                               [i \in 1..Len(groups) |->
                                   <<groups[i], ug[groups[i]].count>>]>> >>
                     ELSE <<>>
             rest == reveal_hex_to_players(f1, ug, hex_, Tail(viewers))
         IN [fog |-> rest.fog, events |-> line \o rest.events]

\* Faulty variant: the turn is not handed on.
end_turn_stay(ap, tn) == [active_player |-> ap, turn_number |-> tn]

end_turn(ap, tn) ==
    LET idx == CHOOSE i \in 1..Len(Players) : Players[i] = ap
        nxt == Players[(idx % Len(Players)) + 1]
    IN [active_player |-> nxt,
        turn_number |-> IF nxt = Players[1] THEN tn + 1 ELSE tn]

\* Faulty variant: the convergence scan finds nothing.
find_contested_none(ug) == {}

\* find_contested_hexes: hexes holding groups of two or more owners.
find_contested_hexes(ug) ==
    {h \in {ug[x].location : x \in DOMAIN ug} :
        Cardinality({ug[x].owner : x \in {y \in DOMAIN ug : ug[y].location = h}}) >= 2}

\* interception_policy(mover, enemy_groups, at_hex)
\* max((g.sensor_level for g in enemy_groups), default=0)
MaxSensors(ug, gids) ==
    IF gids = {} THEN 0
    ELSE CHOOSE m \in {sensor_level(ug[x]) : x \in gids} :
             \A x \in gids : m >= sensor_level(ug[x])

\* Faulty variants of the policy: one never stops the mover, one lets the
\* cloak rule go first, one ignores the cloak.
interception_never_stops(ug, mover, enemy_gids) ==
    IF _all_noncombat(ug, enemy_gids) THEN "PASS_THROUGH_DESTROY_NONCOMBAT"
    ELSE "PASS_THROUGH"

interception_cloak_first(ug, mover, enemy_gids) ==
    IF cloak_level(ug[mover]) > MaxSensors(ug, enemy_gids) THEN "PASS_THROUGH"
    ELSE IF _all_noncombat(ug, enemy_gids) THEN "PASS_THROUGH_DESTROY_NONCOMBAT"
    ELSE "STOP_AND_MARK_COMBAT"

interception_ignores_cloak(ug, mover, enemy_gids) ==
    IF _all_noncombat(ug, enemy_gids) THEN "PASS_THROUGH_DESTROY_NONCOMBAT"
    ELSE "STOP_AND_MARK_COMBAT"

interception_policy(ug, mover, enemy_gids) ==
    IF _all_noncombat(ug, enemy_gids) THEN "PASS_THROUGH_DESTROY_NONCOMBAT"
    ELSE IF cloak_level(ug[mover]) > MaxSensors(ug, enemy_gids) THEN "PASS_THROUGH"
    ELSE "STOP_AND_MARK_COMBAT"

\* ------------------------------------------------------------------
\* sim/turn_engine.py : movement phase
\* ------------------------------------------------------------------
\* The "for e in list(enemies_here)" loop: remove every enemy, one note each.
RECURSIVE DestroyAll(_, _, _)
DestroyAll(ug, gids, step_hex) ==
    IF gids = <<>> THEN [ug |-> ug, notes |-> <<>>]
    ELSE LET r == DestroyAll(remove_group(ug, Head(gids)), Tail(gids), step_hex)
         IN [ug |-> r.ug,
             notes |-> << <<"NOTE", "destroyed during interception",
                            Head(gids), step_hex>> >> \o r.notes]

\* The "for step_hex in path" loop of apply_move_movement_phase, from step
\* i on.  w = [ug, notes, passes, trail]: the registry,
\* mover left on its last step, the notes so far and (observation only)
\* the PASS_THROUGH outcomes and the hexes entered so far.
RECURSIVE WalkPath(_, _, _, _)
WalkPath(w, gid, path, i) ==
    IF i > Len(path)
    THEN [ok |-> TRUE, msg |-> "Moved", final_hex |-> path[Len(path)],
          sites |-> {}, notes |-> w.notes, ug |-> w.ug,
          passes |-> w.passes, trail |-> w.trail, path |-> path]
    ELSE
      LET step_hex == path[i]
          ug1 == [w.ug EXCEPT ![gid].location = step_hex]
          w1 == [w EXCEPT !.ug = ug1, !.trail = Append(@, step_hex)]
          enemies_here == SeqFilterIn(groups_at(ug1, step_hex),
                              {x \in DOMAIN ug1 : ug1[x].owner # ug1[gid].owner})
          outcome == interception_policy(ug1, gid, SeqToSet(enemies_here))
      IN IF enemies_here = <<>> THEN WalkPath(w1, gid, path, i + 1)
         ELSE IF outcome = "PASS_THROUGH"
         THEN WalkPath([w1 EXCEPT !.passes = @ \cup
                            {[gid |-> gid, hex |-> step_hex, last |-> i = Len(path)]}],
                       gid, path, i + 1)
         ELSE IF outcome = "PASS_THROUGH_DESTROY_NONCOMBAT"
         THEN LET d == DestroyAll(ug1, enemies_here, step_hex)
              IN WalkPath([w1 EXCEPT !.ug = d.ug, !.notes = @ \o d.notes],
                          gid, path, i + 1)
         ELSE [ok |-> TRUE, msg |-> "halted", final_hex |-> step_hex,
               sites |-> {step_hex}, notes |-> w1.notes, ug |-> ug1,
               passes |-> w1.passes, trail |-> w1.trail,
               path |-> path]

\* Faulty variant: the path length is not held against the allowance.
apply_move_any_range(ug, gm, ap, gid, dest) ==
    LET fail(m, h) == [ok |-> FALSE, msg |-> m, final_hex |-> h, sites |-> {},
                       notes |-> <<>>, ug |-> ug, passes |-> {},
                       trail |-> <<>>, path |-> <<>>]
    IN IF gid \notin DOMAIN ug THEN fail("No such group.", dest)
       ELSE IF ug[gid].owner # ap
       THEN fail("You don't control that group.", ug[gid].location)
       ELSE IF ug[gid].location = dest
       THEN fail("already at", ug[gid].location)
       ELSE LET start == ug[gid].location
                p == bfs_path(gm, start, dest)
            IN IF ~p.found THEN fail("No path", start)
               ELSE WalkPath([ug |-> ug, notes |-> <<>>,
                              passes |-> {}, trail |-> <<>>], gid, p.path, 1)

\* apply_move_movement_phase(group_id, dest) on registry ug, with game map
\* gm and active player ap.
apply_move_movement_phase(ug, gm, ap, gid, dest) ==
    LET fail(m, h) == [ok |-> FALSE, msg |-> m, final_hex |-> h, sites |-> {},
                       notes |-> <<>>, ug |-> ug, passes |-> {},
                       trail |-> <<>>, path |-> <<>>]
    IN IF gid \notin DOMAIN ug THEN fail("No such group.", dest)
       ELSE IF ug[gid].owner # ap
       THEN fail("You don't control that group.", ug[gid].location)
       ELSE IF ug[gid].location = dest
       THEN fail("already at", ug[gid].location)
       ELSE LET start == ug[gid].location
                p == bfs_path(gm, start, dest)
            IN IF ~p.found THEN fail("No path", start)
               ELSE IF Len(p.path) > g_movement(ug[gid])
               THEN fail("Out of range via path", start)
               ELSE WalkPath([ug |-> ug, notes |-> <<>>,
                              passes |-> {}, trail |-> <<>>], gid, p.path, 1)

\* ------------------------------------------------------------------
\* sim/combat/resolver.py : collect_battles
\* ------------------------------------------------------------------
\* Owners having at least one combatant group in hex hx.
CombatantOwners(ug, hx) ==
    {ug[x].owner : x \in {y \in DOMAIN ug :
                             ug[y].location = hx /\ is_combatant(ug[y])}}

\* Faulty variant: any two owners make a battle, combatants or not.
IsBattleAnyOwner(ug, hx) ==
    Cardinality({ug[x].owner : x \in {y \in DOMAIN ug : ug[y].location = hx}}) >= 2

IsBattle(ug, hx) == Cardinality(CombatantOwners(ug, hx)) >= 2

\* sorted(combat_sites, key=lambda h: (h.q, h.r))
HexLess(a, b) == a[1] < b[1] \/ (a[1] = b[1] /\ a[2] < b[2])

RECURSIVE SortHexes(_)
SortHexes(S) ==
    IF S = {} THEN <<>>
    ELSE LET m == CHOOSE a \in S : \A b \in S \ {a} : HexLess(a, b)
         IN <<m>> \o SortHexes(S \ {m})

RECURSIVE SeqFilterBattle(_, _)
SeqFilterBattle(ug, hs) ==
    IF hs = <<>> THEN <<>>
    ELSE IF IsBattle(ug, Head(hs)) THEN <<Head(hs)>> \o SeqFilterBattle(ug, Tail(hs))
    ELSE SeqFilterBattle(ug, Tail(hs))

\* Faulty variant: every site is looked at twice, in descending order.
collect_battles_twice(ug, sites) ==
    LET hs == SortHexes(sites)
        down == [i \in 1..Len(hs) |-> hs[Len(hs) + 1 - i]]
    IN SeqFilterBattle(ug, down \o down)

\* collect_battles: the locations of the battles, in resolution order.
collect_battles(ug, sites) == SeqFilterBattle(ug, SortHexes(sites))

\* ------------------------------------------------------------------
\* sim/combat/utils.py and sim/targeting.py
\* ------------------------------------------------------------------
INIT_ORDER == [A |-> 0, B |-> 1, C |-> 2, D |-> 3, E |-> 4]

init_rank(letter) == IF letter \in DOMAIN INIT_ORDER THEN INIT_ORDER[letter] ELSE 99

\* Lexicographic order on tuples of integers of equal length.
RECURSIVE TupleLess(_, _)
TupleLess(a, b) ==
    IF a = <<>> THEN FALSE
    ELSE IF Head(a) # Head(b) THEN Head(a) < Head(b)
    ELSE TupleLess(Tail(a), Tail(b))

\* Faulty variant: within a letter the lower tactics sorts first.
volley_sort_key_low_tactics(ug, gid) ==
    <<init_rank(g_initiative(ug[gid])), ug[gid].tactics, GroupRank[gid]>>

\* volley_sort_key(g): (initiative rank, -tactics, group id).
volley_sort_key(ug, gid) ==
    <<init_rank(g_initiative(ug[gid])), 0 - ug[gid].tactics, GroupRank[gid]>>

\* The (initiative rank, -tactics) key that delimits one volley.
VolleyKey(ug, gid) == <<init_rank(g_initiative(ug[gid])), 0 - ug[gid].tactics>>

\* list.sort(key=volley_sort_key) of a set of live group ids.
RECURSIVE SortByVolleyKey(_, _)
SortByVolleyKey(ug, S) ==
    IF S = {} THEN <<>>
    ELSE LET m == CHOOSE a \in S : \A b \in S \ {a} :
                      TupleLess(volley_sort_key(ug, a), volley_sort_key(ug, b))
         IN <<m>> \o SortByVolleyKey(ug, S \ {m})

\* focus_fire: remaining hull, lowest defense, highest attack, group id.
remaining_hull(g) == Max2(0, g_hull(g) - g.damage)

FocusKey(ug, gid) ==
    <<remaining_hull(ug[gid]), g_defense(ug[gid]), 0 - g_attack(ug[gid]),
      GroupRank[gid]>>

\* Faulty variant: the damage a group carries is not looked at.
focus_fire_full_hull(ug, enemies) ==
    CHOOSE a \in enemies : \A b \in enemies \ {a} :
        TupleLess(<<g_hull(ug[a]), g_defense(ug[a]), 0 - g_attack(ug[a]), GroupRank[a]>>,
                  <<g_hull(ug[b]), g_defense(ug[b]), 0 - g_attack(ug[b]), GroupRank[b]>>)

\* Returns the chosen enemy id; enemies is a non-empty set of ids
\* (the caller skips the attacker when it is empty: focus_fire returns None).
focus_fire(ug, enemies) ==
    CHOOSE a \in enemies : \A b \in enemies \ {a} :
        TupleLess(FocusKey(ug, a), FocusKey(ug, b))

\* Faulty variant: a kill leaves the damage counter where it is.
RECURSIVE apply_hits_no_reset(_, _)
apply_hits_no_reset(g, hits) ==
    IF ~(hits > 0 /\ g.count > 0) THEN g
    ELSE LET d == g.damage + 1 IN
         IF d >= Max2(1, g_hull(g))
         THEN apply_hits_no_reset([g EXCEPT !.count = @ - 1, !.damage = d], hits - 1)
         ELSE apply_hits_no_reset([g EXCEPT !.damage = d], hits - 1)

\* apply_hits_to_group: the group after `hits` hits (count may reach 0).
RECURSIVE apply_hits_to_group(_, _)
apply_hits_to_group(g, hits) ==
    IF ~(hits > 0 /\ g.count > 0) THEN g
    ELSE LET d == g.damage + 1 IN
         IF d >= Max2(1, g_hull(g))
         THEN apply_hits_to_group([g EXCEPT !.count = @ - 1, !.damage = 0], hits - 1)
         ELSE apply_hits_to_group([g EXCEPT !.damage = d], hits - 1)

\* ------------------------------------------------------------------
\* sim/combat/resolver.py : resolve_combat
\* ------------------------------------------------------------------
\* alive_groups(): ids of the groups in hex_ with count > 0, registry order.
alive_groups(ug, hex_) ==
    SeqFilterIn(groups_at(ug, hex_), {x \in DOMAIN ug : ug[x].count > 0})

owners_present(ug, gids) == {ug[x].owner : x \in SeqToSet(gids)}

\* roster with the dead removed.
LiveRoster(ug, ros) == {gid \in ros : gid \in DOMAIN ug /\ ug[gid].count > 0}

\* The groups of the next volley, in firing order.
volley_groups(ug, ros) ==
    LET sorted == SortByVolleyKey(ug, LiveRoster(ug, ros))
        next_key == VolleyKey(ug, sorted[1])
    IN SeqFilterIn(sorted, {gid \in LiveRoster(ug, ros) : VolleyKey(ug, gid) = next_key})

\* Enemies of an attacker in the snapshot taken at volley start.
SnapshotEnemies(ug, hex_, attacker) ==
    {x \in SeqToSet(alive_groups(ug, hex_)) : ug[x].owner # ug[attacker].owner}

to_hit(ug, attacker, target) ==
    Max2(1, g_attack(ug[attacker]) - g_defense(ug[target]))

\* Numbers of hits that `count` rolls of rng.randint(1, 10) can score
\* against a threshold (a roll >= threshold is a hit).
HitsPossible(count, threshold) ==
    IF threshold <= 1 THEN {count}
    ELSE IF threshold > DieSides THEN {0}
    ELSE 0..count

\* Attackers of a volley that have a target (the others are skipped).
Shooters(ug, hex_, vg) ==
    SeqFilterIn(vg, {a \in SeqToSet(vg) : SnapshotEnemies(ug, hex_, a) # {}})

\* One shot record per shooter, hv giving the hits each one rolls.
Shots(ug, hex_, vg, hv) ==
    LET sh == Shooters(ug, hex_, vg) IN
    [i \in 1..Len(sh) |->
        LET a == sh[i]
            t == focus_fire(ug, SnapshotEnemies(ug, hex_, a))
        IN [attacker |-> a, target |-> t, count |-> ug[a].count,
            to_hit |-> to_hit(ug, a, t), hits |-> hv[a]]]

\* hits_map: targets in order of first insertion.
RECURSIVE HitTargets(_, _)
HitTargets(shots, seen) ==
    IF shots = <<>> THEN <<>>
    ELSE IF Head(shots).target \in seen THEN HitTargets(Tail(shots), seen)
    ELSE <<Head(shots).target>> \o
         HitTargets(Tail(shots), seen \cup {Head(shots).target})

RECURSIVE HitsOn(_, _)
HitsOn(shots, t) ==
    IF shots = <<>> THEN 0
    ELSE (IF Head(shots).target = t THEN Head(shots).hits ELSE 0)
         + HitsOn(Tail(shots), t)

ShotEvents(shots) ==
    [i \in 1..Len(shots) |->
        <<"SHOT", shots[i].attacker, shots[i].target, shots[i].count,
          shots[i].to_hit, shots[i].hits>>]

\* The "for target_id, hits in hits_map.items()" loop.
RECURSIVE ApplyHitsMap(_, _, _)
ApplyHitsMap(ug, shots, targets) ==
    IF targets = <<>> THEN [ug |-> ug, events |-> <<>>]
    ELSE LET t == Head(targets)
             hits == HitsOn(shots, t)
         IN IF t \notin DOMAIN ug \/ ug[t].count <= 0
            THEN ApplyHitsMap(ug, shots, Tail(targets))
            ELSE LET after == apply_hits_to_group(ug[t], hits)
                     ev == << <<"TAKES", t, hits, ug[t].count, after.count,
                                ug[t].damage, after.damage>> >>
                     dead == after.count <= 0
                     ug1 == IF dead THEN remove_group(ug, t)
                            ELSE [ug EXCEPT ![t] = after]
                     r == ApplyHitsMap(ug1, shots, Tail(targets))
                 IN [ug |-> r.ug,
                     events |-> ev \o (IF dead THEN << <<"DESTROYED", t>> >> ELSE <<>>)
                                   \o r.events]

\* ------------------------------------------------------------------
\* sim/turn_engine.py : exploration phase and end-of-turn actions.
\* x = [ug, gm, colonies, explored_hexes, raised] is the state the phase
\* works on; raised tells that an exception ended it.
\* ------------------------------------------------------------------
Colony(owner, level, homeworld) ==
    [owner |-> owner, level |-> level, homeworld |-> homeworld,
     minerals_delivered |-> 0]

player_has_terraforming(player) == FALSE

RECURSIVE RemoveAll(_, _)
RemoveAll(ug, gids) ==
    IF gids = <<>> THEN ug ELSE RemoveAll(remove_group(ug, Head(gids)), Tail(gids))

\* resolve_exploration_hex(hex_, explorer)
\* The supernova branch calls self.get_previous_hex(explorer), a method
\* GameState does not have: the call raises AttributeError before the
\* branch changes anything.
resolve_exploration_hex(x, hex_, explorer) ==
    LET content == get_hex_content(x.gm, hex_) IN
    IF content = "SUPERNOVA"
    THEN [x EXCEPT !.raised = TRUE]
    ELSE IF content = "HORROR"
    THEN [x EXCEPT !.ug = RemoveAll(x.ug, groups_at(x.ug, hex_)),
                   !.gm = set_hex_content(x.gm, hex_, "CLEAR")]
    ELSE x

\* Faulty variant: the group stays in the registry with no ship left.
try_colonize_keep_empty(x, gid, h, content) ==
    IF ~UnitTypes[x.ug[gid].unit_type].can_colonize THEN x
    ELSE IF content \notin {"PLANET_STANDARD", "PLANET_BARREN"} THEN x
    ELSE IF h \in DOMAIN x.colonies THEN x
    ELSE IF content = "PLANET_BARREN" /\ ~player_has_terraforming(x.ug[gid].owner)
    THEN x
    ELSE [x EXCEPT !.colonies = DictPut(x.colonies, h, Colony(x.ug[gid].owner, 0, FALSE)),
                   !.ug[gid].count = @ - 1]

\* Faulty variant: a colony already on the hex is not looked for.
try_colonize_overwrite(x, gid, h, content) ==
    IF ~UnitTypes[x.ug[gid].unit_type].can_colonize THEN x
    ELSE IF content \notin {"PLANET_STANDARD", "PLANET_BARREN"} THEN x
    ELSE IF content = "PLANET_BARREN" /\ ~player_has_terraforming(x.ug[gid].owner)
    THEN x
    ELSE LET col == DictPut(x.colonies, h, Colony(x.ug[gid].owner, 0, FALSE))
             cnt == x.ug[gid].count - 1
         IN [x EXCEPT !.colonies = col,
                      !.ug = IF cnt <= 0 THEN remove_group(x.ug, gid)
                             ELSE [x.ug EXCEPT ![gid].count = cnt]]

\* try_colonize(g, h, content)
try_colonize(x, gid, h, content) ==
    IF ~UnitTypes[x.ug[gid].unit_type].can_colonize THEN x
    ELSE IF content \notin {"PLANET_STANDARD", "PLANET_BARREN"} THEN x
    ELSE IF h \in DOMAIN x.colonies THEN x
    ELSE IF content = "PLANET_BARREN" /\ ~player_has_terraforming(x.ug[gid].owner)
    THEN x
    ELSE LET col == DictPut(x.colonies, h, Colony(x.ug[gid].owner, 0, FALSE))
             cnt == x.ug[gid].count - 1
         IN [x EXCEPT !.colonies = col,
                      !.ug = IF cnt <= 0 THEN remove_group(x.ug, gid)
                             ELSE [x.ug EXCEPT ![gid].count = cnt]]

\* Faulty variant: the cargo is not held against the ship count.
try_pickup_any_load(x, gid, h, content) ==
    IF gid \notin DOMAIN x.ug THEN x
    ELSE IF ~UnitTypes[x.ug[gid].unit_type].can_mine THEN x
    ELSE IF content # "MINERALS" THEN x
    ELSE [x EXCEPT !.ug[gid].cargo_minerals = @ + 1,
                   !.gm = set_hex_content(x.gm, h, "CLEAR")]

\* try_pickup_minerals(g, h, content)
try_pickup_minerals(x, gid, h, content) ==
    IF gid \notin DOMAIN x.ug THEN x
    ELSE IF ~UnitTypes[x.ug[gid].unit_type].can_mine THEN x
    ELSE IF content # "MINERALS" THEN x
    ELSE LET cargo == x.ug[gid].cargo_minerals
             capacity == Max2(0, x.ug[gid].count)
         IN IF cargo >= capacity THEN x
            ELSE [x EXCEPT !.ug[gid].cargo_minerals = cargo + 1,
                           !.gm = set_hex_content(x.gm, h, "CLEAR")]

\* try_deliver_minerals(g, h); g is the group object as it was handed to
\* resolve_end_of_turn_hex_actions (it may have left the registry since).
try_deliver_minerals(x, gid, g, h) ==
    LET cargo == IF gid \in DOMAIN x.ug THEN x.ug[gid].cargo_minerals
                 ELSE g.cargo_minerals
    IN IF cargo <= 0 THEN x
       ELSE IF h \notin DOMAIN x.colonies THEN x
       ELSE IF x.colonies[h].owner # g.owner THEN x
       ELSE [x EXCEPT !.colonies[h].minerals_delivered = @ + cargo,
                      !.ug = IF gid \in DOMAIN x.ug
                             THEN [x.ug EXCEPT ![gid].cargo_minerals = 0]
                             ELSE x.ug]

\* resolve_end_of_turn_hex_actions(g)
resolve_end_of_turn_hex_actions(x, gid) ==
    LET g == x.ug[gid]
        h == g.location
        content == get_hex_content(x.gm, h)
    IN IF ~is_explored(x.gm, h) THEN x
       ELSE LET x1 == try_colonize(x, gid, h, content)
                x2 == try_pickup_minerals(x1, gid, h, content)
            IN try_deliver_minerals(x2, gid, g, h)

\* The "for g in list(self.unit_groups.values())" loop of
\* resolve_exploration_phase over the ids gids captured at its start.
RECURSIVE ExploreLoop(_, _)
ExploreLoop(x, gids) ==
    IF gids = <<>> THEN x
    ELSE LET gid == Head(gids) IN
         IF gid \notin DOMAIN x.ug THEN ExploreLoop(x, Tail(gids))
         ELSE LET h == x.ug[gid].location
                  x1 == IF ~is_explored(x.gm, h)
                        THEN LET e == resolve_exploration_hex(x, h, gid)
                             IN IF e.raised THEN e
                                ELSE [e EXCEPT !.explored_hexes = Append(@, h),
                                               !.gm = set_explored(e.gm, h)]
                        ELSE x
              IN IF x1.raised THEN x1
                 ELSE IF gid \notin DOMAIN x1.ug THEN ExploreLoop(x1, Tail(gids))
                 ELSE ExploreLoop(resolve_end_of_turn_hex_actions(x1, gid),
                                  Tail(gids))

resolve_exploration_phase(ug, gm, cols) ==
    ExploreLoop([ug |-> ug, gm |-> gm, colonies |-> cols, explored_hexes |-> <<>>,
                 raised |-> FALSE],
                GroupSeq(ug))

\* ------------------------------------------------------------------
\* Initial states: scenarios as the scenario builders and the test
\* fixtures set them up (two players, A active, turn 1, empty fog tables,
\* no order queue yet).
\* ------------------------------------------------------------------
MapHexes == {<<q, r>> : q \in 0..MapQMax, r \in 0..MapRMax}

\* Destinations offered to queue_move: the two hexes east of A's home,
\* the supernova hex and one hex outside the map.
DestHexes == {<<1, 0>>, <<2, 0>>, <<2, 1>>, <<MapQMax + 1, 0>>}

A_HOME == <<0, 0>>

B_HOME == <<2, 0>>

ScenarioMap ==
    [q_min |-> 0, q_max |-> MapQMax, r_min |-> 0, r_max |-> MapRMax,
     blocked |-> {}, explored |-> {A_HOME, B_HOME},
     hex_contents |-> (A_HOME :> "HOMEWORLD") @@ (B_HOME :> "HOMEWORLD")
                      @@ (<<0, 1>> :> "PLANET_STANDARD")
                      @@ (<<1, 1>> :> "MINERALS")
                      @@ (<<2, 1>> :> "SUPERNOVA")]

ScenarioColonies ==
    (A_HOME :> Colony("A", 3, TRUE))
    @@ (B_HOME :> Colony("B", 3, TRUE))

\* Interception scenarios: A's battleship, cloaked raider and colony ship
\* against B's picket and decoy, B's groups on either hex of A's way east.
InterceptGroups(b1, b2) ==
    ("A1" :> UnitGroup("A", "Battleship", 1, A_HOME))
    @@ ("A2" :> UnitGroup("A", "Raider", 1, A_HOME))
    @@ ("A3" :> UnitGroup("A", "ColonyShip", 1, <<0, 1>>))
    @@ ("B1" :> UnitGroup("B", "Picket", 1, b1))
    @@ ("B2" :> UnitGroup("B", "Decoy", 1, b2))

\* Duel scenario: two scouts that can both miss.
DuelGroups ==
    ("A1" :> UnitGroup("A", "Scout", 1, A_HOME))
    @@ ("B1" :> UnitGroup("B", "Scout", 1, <<1, 0>>))

ScenarioGroups ==
    {InterceptGroups(<<1, 0>>, B_HOME), InterceptGroups(B_HOME, <<1, 0>>), DuelGroups}

\* hist records, for the call in progress or just returned: the active
\* player, turn and registry at its start, one record per applied order,
\* the registry and battle list at the end of the movement phase, the
\* hexes handed to resolve_combat, the groups hit and the owners that
\* fired, per hex; handed holds the <<viewer, marker, group id>> triples
\* that get_marker_id has returned; gm0 is the map at the start of the call.
NoTwin == [pc |-> "none"]

NoHist == [ap |-> "A", turn |-> 1, ug0 |-> EmptyDict, moves |-> <<>>,
           moved |-> FALSE, ug_moved |-> EmptyDict, planned |-> <<>>,
           resolved |-> <<>>, hit_at |-> {}, fired |-> {}, handed |-> {},
           gm0 |-> EmptyDict]

Init ==
    /\ active_player = Players[1]
    /\ turn_number = 1
    /\ unit_groups \in ScenarioGroups
    /\ colonies = ScenarioColonies
    /\ game_map = ScenarioMap
    /\ revealed_to = EmptyDict
    /\ marker_for_viewer = EmptyDict
    /\ group_for_viewer_marker = EmptyDict
    /\ next_marker_index = EmptyDict
    /\ pending_orders = EmptyDict
    /\ events = <<>>
    /\ pc = "idle"
    /\ order_idx = 1
    /\ combat_sites = {}
    /\ battles = <<>>
    /\ round_num = 0
    /\ volley_num = 0
    /\ roster = {}
    /\ queued = 0
    /\ hist = NoHist
    /\ twin = NoTwin

\* ------------------------------------------------------------------
\* Order queue operations
\* ------------------------------------------------------------------
_ensure_order_queue(po, player) ==
    IF player \in DOMAIN po THEN po ELSE DictPut(po, player, <<>>)

MoveOrder(gid, dest) == [group_id |-> gid, dest |-> dest]

Ret(ok, msg) == << <<"RET", ok, msg>> >>

\* Faulty variant: the order is queued without a look at the registry.
queue_move_unchecked(po, ug, ap, gid, dest) ==
    [pending_orders |-> [_ensure_order_queue(po, ap) EXCEPT
                            ![ap] = Append(@, MoveOrder(gid, dest))],
     ok |-> TRUE, msg |-> "Queued"]

\* queue_move(group_id, dest): the new queue table and the returned pair.
queue_move(po, ug, ap, gid, dest) ==
    LET po1 == _ensure_order_queue(po, ap) IN
    IF gid \notin DOMAIN ug
    THEN [pending_orders |-> po1, ok |-> FALSE, msg |-> "No such group."]
    ELSE IF ug[gid].owner # ap
    THEN [pending_orders |-> po1, ok |-> FALSE, msg |-> "You don't control that group."]
    ELSE [pending_orders |-> [po1 EXCEPT ![ap] = Append(@, MoveOrder(gid, dest))],
          ok |-> TRUE, msg |-> "Queued"]

\* Faulty variant: the oldest order is removed.
undo_first_order(po, ap) ==
    LET po1 == _ensure_order_queue(po, ap) IN
    IF po1[ap] = <<>>
    THEN [pending_orders |-> po1, ok |-> FALSE, msg |-> "No orders to undo."]
    ELSE [pending_orders |-> [po1 EXCEPT ![ap] = Tail(@)],
          ok |-> TRUE, msg |-> "Undid"]

undo_last_order(po, ap) ==
    LET po1 == _ensure_order_queue(po, ap) IN
    IF po1[ap] = <<>>
    THEN [pending_orders |-> po1, ok |-> FALSE, msg |-> "No orders to undo."]
    ELSE [pending_orders |-> [po1 EXCEPT ![ap] = SubSeq(@, 1, Len(@) - 1)],
          ok |-> TRUE, msg |-> "Undid"]

clear_orders(po, ap) ==
    LET po1 == _ensure_order_queue(po, ap) IN
    [pending_orders |-> [po1 EXCEPT ![ap] = <<>>], ok |-> TRUE, msg |-> "Cleared"]

QueueMove ==
    /\ pc = "idle"
    /\ queued < MaxQueued
    /\ \E gid \in GroupIds, dest \in DestHexes :
          LET r == queue_move(pending_orders, unit_groups, active_player, gid, dest)
          IN /\ pending_orders' = r.pending_orders
             /\ events' = Ret(r.ok, r.msg)
             /\ queued' = IF r.ok THEN queued + 1 ELSE queued
    /\ hist' = NoHist
    /\ UNCHANGED <<gameVars, pc, callVars, twin>>

UndoLastOrder ==
    /\ pc = "idle"
    /\ LET r == undo_last_order(pending_orders, active_player)
       IN /\ pending_orders' = r.pending_orders
          /\ events' = Ret(r.ok, r.msg)
    /\ hist' = NoHist
    /\ UNCHANGED <<gameVars, pc, callVars, queued, twin>>

ClearOrders ==
    /\ pc = "idle"
    /\ LET r == clear_orders(pending_orders, active_player)
       IN /\ pending_orders' = r.pending_orders
          /\ events' = Ret(r.ok, r.msg)
    /\ hist' = NoHist
    /\ UNCHANGED <<gameVars, pc, callVars, queued, twin>>

\* ------------------------------------------------------------------
\* resolve_combat(game, attacker_owner, hex_) as step operators, so that
\* the same code runs inside submit_orders and in a direct call.
\* ------------------------------------------------------------------
\* Orderings in which a set can be iterated (list(owners_now): the
\* iteration order of a set of PlayerID depends on the process's string
\* hash seed).
SeqsOf(S) ==
    {q \in [1..Cardinality(S) -> S] : \A i, j \in 1..Cardinality(S) : i # j => q[i] # q[j]}

OwnersAlive(ug, hex_) == owners_present(ug, alive_groups(ug, hex_))

\* Entry: the opposing-sides check and the reveal at combat start.
rc_begin(ug, fog, hex_, viewers) ==
    IF Cardinality(OwnersAlive(ug, hex_)) < 2
    THEN [opposed |-> FALSE, fog |-> fog,
          events |-> << <<"no opposing sides", hex_>> >>]
    ELSE LET rv == reveal_hex_to_players(fog, ug, hex_, viewers)
         IN [opposed |-> TRUE, fog |-> rv.fog, events |-> rv.events]

\* Faulty variant: no safety cap.
RoundCapNever(r) == FALSE

\* "round_num += 1; if round_num > max_rounds": r is the incremented value.
RoundCapHit(r) == r > max_rounds

\* Top of the round loop: break when fewer than two owners survive or the
\* cap is passed, otherwise open round rn + 1 with the roster of the living.
rc_round(ug, hex_, rn, ros) ==
    IF Cardinality(OwnersAlive(ug, hex_)) < 2
    THEN [open |-> FALSE, round_num |-> rn, roster |-> ros,
          events |-> << <<"Combat ends", hex_>> >>]
    ELSE IF RoundCapHit(rn + 1)
    THEN [open |-> FALSE, round_num |-> rn + 1, roster |-> ros,
          events |-> << <<"aborted", hex_, max_rounds>>, <<"Combat ends", hex_>> >>]
    ELSE [open |-> TRUE, round_num |-> rn + 1,
          roster |-> SeqToSet(alive_groups(ug, hex_)),
          events |-> << <<"Round begins", rn + 1>> >>]

\* The volley loop has something left to do.
VolleyPending(ug, hex_, ros) ==
    /\ LiveRoster(ug, ros) # {}
    /\ Cardinality(OwnersAlive(ug, hex_)) >= 2

\* hv gives, for every shooter of the next volley, a number of hits its
\* dice can score.
HitRolls(ug, hex_, ros) ==
    LET sh == SeqToSet(Shooters(ug, hex_, volley_groups(ug, ros))) IN
    {hv \in [sh -> 0..DieSides] :
        \A a \in sh :
            hv[a] \in HitsPossible(ug[a].count,
                         to_hit(ug, a, focus_fire(ug, SnapshotEnemies(ug, hex_, a))))}

\* Faulty variant: each attacker's hits are applied before the next
\* attacker of the volley fires.
RECURSIVE FireInTurn(_, _, _, _)
FireInTurn(ug, hex_, vg, hv) ==
    IF vg = <<>> THEN [ug |-> ug, shots |-> <<>>, events |-> <<>>]
    ELSE IF Head(vg) \notin DOMAIN ug \/ SnapshotEnemies(ug, hex_, Head(vg)) = {}
    THEN FireInTurn(ug, hex_, Tail(vg), hv)
    ELSE LET one == Shots(ug, hex_, <<Head(vg)>>, hv)
             ap == ApplyHitsMap(ug, one, HitTargets(one, {}))
             r == FireInTurn(ap.ug, hex_, Tail(vg), hv)
         IN [ug |-> r.ug, shots |-> one \o r.shots,
             events |-> ShotEvents(one) \o ap.events \o r.events]

rc_volley_in_turn(ug, hex_, ros, vn, hv) ==
    LET vg == volley_groups(ug, ros)
        f == FireInTurn(ug, hex_, vg, hv)
    IN [ug |-> f.ug,
        roster |-> LiveRoster(ug, ros) \ SeqToSet(vg),
        volley_num |-> vn + 1,
        shots |-> f.shots,
        events |-> << <<"Volley", vn + 1, g_initiative(ug[vg[1]]),
                        ug[vg[1]].tactics, Len(vg)>> >> \o f.events]

\* One volley: every group of the volley fires at the snapshot, then the
\* accumulated hits are applied.
rc_volley(ug, hex_, ros, vn, hv) ==
    LET vg == volley_groups(ug, ros)
        shots == Shots(ug, hex_, vg, hv)
        ap == ApplyHitsMap(ug, shots, HitTargets(shots, {}))
    IN [ug |-> ap.ug,
        roster |-> LiveRoster(ug, ros) \ SeqToSet(vg),
        volley_num |-> vn + 1,
        shots |-> shots,
        events |-> << <<"Volley", vn + 1, g_initiative(ug[vg[1]]),
                        ug[vg[1]].tactics, Len(vg)>> >>
                   \o ShotEvents(shots) \o ap.events]

\* ------------------------------------------------------------------
\* submit_orders, step by step
\* ------------------------------------------------------------------
Orders == _ensure_order_queue(pending_orders, active_player)[active_player]

\* Entry of submit_orders.  With an empty queue it returns at once;
\* otherwise it opens the movement phase.
SubmitOrders ==
    /\ pc = "idle"
    /\ pending_orders' = _ensure_order_queue(pending_orders, active_player)
    /\ IF Orders = <<>>
       THEN /\ events' = << <<"No orders to submit.">> >>
            /\ hist' = NoHist
            /\ UNCHANGED <<pc, order_idx, combat_sites>>
       ELSE /\ events' = << <<"SUBMIT", active_player, Len(Orders)>>,
                            <<"PHASE", "Movement">> >>
            /\ pc' = "movement"
            /\ order_idx' = 1
            /\ combat_sites' = {}
            /\ hist' = [NoHist EXCEPT !.ap = active_player, !.turn = turn_number,
                                      !.ug0 = unit_groups, !.gm0 = game_map]
    /\ UNCHANGED <<gameVars, battles, round_num, volley_num, roster, queued, twin>>

\* One iteration of "for idx, order in enumerate(list(orders), start=1)".
MoveStep ==
    /\ pc = "movement"
    /\ order_idx <= Len(Orders)
    /\ LET order == Orders[order_idx]
           gid == order.group_id
           r == apply_move_movement_phase(unit_groups, game_map, active_player,
                                          gid, order.dest)
       IN /\ unit_groups' = r.ug
          /\ combat_sites' = combat_sites \cup r.sites
          /\ events' = events \o << <<"ORDER", order_idx, gid, order.dest, r.msg>> >>
                              \o r.notes
          /\ hist' = [hist EXCEPT !.moves = Append(@,
                         [gid |-> gid, dest |-> order.dest, ok |-> r.ok,
                          msg |-> r.msg, path |-> r.path, trail |-> r.trail,
                          passes |-> r.passes, sites |-> r.sites,
                          before |-> unit_groups,
                          after |-> r.ug])]
    /\ order_idx' = order_idx + 1
    /\ UNCHANGED <<active_player, turn_number, colonies, game_map, fogVars,
                   pending_orders, pc, battles, round_num, volley_num, roster,
                   queued, twin>>

\* Faulty variant: the applied orders stay in the queue.
orders_kept(po, ap) == po

\* orders.clear() at the end of the movement phase.
orders_clear(po, ap) == [po EXCEPT ![ap] = <<>>]

\* After the loop: orders.clear(), the convergence scan, and the opening
\* of the combat phase with collect_battles.
MovementEnd ==
    /\ pc = "movement"
    /\ order_idx > Len(Orders)
    /\ pending_orders' = orders_clear(pending_orders, active_player)
    /\ LET sites == combat_sites \cup find_contested_hexes(unit_groups)
           bs == collect_battles(unit_groups, sites)
       IN /\ combat_sites' = sites
          /\ battles' = bs
          /\ events' = events \o << <<"PHASE", "Combat">> >>
                          \o (IF bs = <<>> THEN << <<"(no battles)">> >> ELSE <<>>)
          /\ hist' = [hist EXCEPT !.moved = TRUE, !.ug_moved = unit_groups,
                                  !.planned = bs]
    /\ pc' = "combat"
    /\ UNCHANGED <<gameVars, order_idx, round_num, volley_num, roster, queued, twin>>

\* "for b in battles": the next battle is handed to resolve_combat, which
\* checks for opposing sides and reveals the hex to every owner present.
CombatBeginStep ==
    /\ pc = "combat"
    /\ battles # <<>>
    /\ \E viewers \in SeqsOf(OwnersAlive(unit_groups, Head(battles))) :
         LET b == rc_begin(unit_groups, Fog, Head(battles), viewers)
         IN /\ revealed_to' = b.fog.revealed_to
            /\ marker_for_viewer' = b.fog.marker_for_viewer
            /\ group_for_viewer_marker' = b.fog.group_for_viewer_marker
            /\ next_marker_index' = b.fog.next_marker_index
            /\ events' = events \o << <<"Combat at", Head(battles)>> >> \o b.events
            /\ IF b.opposed
               THEN /\ round_num' = 0
                    /\ pc' = "round"
                    /\ UNCHANGED battles
               ELSE /\ battles' = Tail(battles)
                    /\ UNCHANGED <<pc, round_num>>
    /\ hist' = [hist EXCEPT !.resolved = Append(@, Head(battles))]
    /\ UNCHANGED <<active_player, turn_number, unit_groups, colonies, game_map,
                   pending_orders, order_idx, combat_sites,
                   volley_num, roster, queued>>

CombatBegin == CombatBeginStep /\ UNCHANGED twin

RoundBeginStep ==
    /\ pc = "round"
    /\ LET r == rc_round(unit_groups, Head(battles), round_num, roster)
       IN /\ round_num' = r.round_num
          /\ roster' = r.roster
          /\ events' = events \o r.events
          /\ IF r.open
             THEN /\ volley_num' = 0
                  /\ pc' = "volley"
                  /\ UNCHANGED battles
             ELSE /\ battles' = Tail(battles)
                  /\ pc' = "combat"
                  /\ UNCHANGED volley_num
    /\ UNCHANGED <<gameVars, pending_orders, order_idx, combat_sites, queued, hist>>

RoundBegin == RoundBeginStep /\ UNCHANGED twin

\* VolleyFireStep(hv): the volley with the dice scoring hv.
VolleyFireStep(hv) ==
    /\ pc = "volley"
    /\ VolleyPending(unit_groups, Head(battles), roster)
    /\ LET v == rc_volley(unit_groups, Head(battles), roster, volley_num, hv)
       IN /\ unit_groups' = v.ug
          /\ roster' = v.roster
          /\ volley_num' = v.volley_num
          /\ events' = events \o v.events
          /\ hist' = [hist EXCEPT
                !.hit_at = @ \cup {<<v.shots[i].target, Head(battles)>> :
                              i \in {j \in 1..Len(v.shots) : v.shots[j].hits > 0}},
                !.fired = @ \cup {<<unit_groups[v.shots[i].attacker].owner,
                                    Head(battles)>> : i \in 1..Len(v.shots)}]
    /\ UNCHANGED <<active_player, turn_number, colonies, game_map, fogVars,
                   pending_orders, pc, order_idx, combat_sites,
                   battles, round_num, queued>>

VolleyFire ==
    /\ pc = "volley"
    /\ VolleyPending(unit_groups, Head(battles), roster)
    /\ \E hv \in HitRolls(unit_groups, Head(battles), roster) : VolleyFireStep(hv)
    /\ UNCHANGED twin

\* The volley loop breaks: the roster is empty or the combat ended.
RoundEndStep ==
    /\ pc = "volley"
    /\ ~VolleyPending(unit_groups, Head(battles), roster)
    /\ roster' = {}
    /\ events' = events \o << <<"Round ends", round_num>> >>
    /\ pc' = "round"
    /\ UNCHANGED <<gameVars, pending_orders, order_idx, combat_sites, battles,
                   round_num, volley_num, queued, hist>>

RoundEnd == RoundEndStep /\ UNCHANGED twin

\* Faulty variant: exploration does not wait for the battles.
ExplorationEarly == pc = "combat"

\* The exploration phase starts once every battle is resolved.
ExplorationReady == pc = "combat" /\ battles = <<>>

ExplorationPhase ==
    /\ ExplorationReady
    /\ LET x == resolve_exploration_phase(unit_groups, game_map, colonies)
       IN /\ unit_groups' = x.ug
          /\ game_map' = x.gm
          /\ colonies' = x.colonies
          /\ IF x.raised
             THEN \* the exception leaves submit_orders: nothing is returned
                  /\ events' = << <<"raised", "AttributeError">> >>
                  /\ pc' = "idle"
             ELSE /\ events' = events \o << <<"PHASE", "Exploration">> >>
                          \o [i \in 1..Len(x.explored_hexes) |->
                                 <<"Explored", x.explored_hexes[i]>>]
                  /\ pc' = "rotate"
    /\ UNCHANGED <<active_player, turn_number, fogVars, pending_orders,
                   callVars, queued, hist, twin>>

\* end_turn() and the return of submit_orders.
EndTurn ==
    /\ pc = "rotate"
    /\ LET t == end_turn(active_player, turn_number)
       IN /\ active_player' = t.active_player
          /\ turn_number' = t.turn_number
          /\ events' = events \o << <<"Now active", t.active_player>> >>
    /\ pc' = "idle"
    /\ UNCHANGED <<unit_groups, colonies, game_map, fogVars, pending_orders,
                   callVars, queued, hist, twin>>

Next ==
    \/ QueueMove
    \/ UndoLastOrder
    \/ ClearOrders
    \/ SubmitOrders
    \/ MoveStep
    \/ MovementEnd
    \/ CombatBegin
    \/ RoundBegin
    \/ VolleyFire
    \/ RoundEnd
    \/ ExplorationPhase
    \/ EndTurn

Spec == Init /\ [][Next]_vars

\* ------------------------------------------------------------------
\* Two executions of resolve_combat side by side.  Both start from the
\* same game state, turn number, hex and triggering owner, so both read
\* the same seeded die-roll stream; each runs in its own process, so each
\* iterates owners_now in an order of its own.  The first execution lives
\* in the ordinary variables, the second in twin.
\* ------------------------------------------------------------------
BattleHex == <<1, 0>>

\* Registries with one contested hex.
SkirmishGroups ==
    [A1 |-> UnitGroup("A", "Battleship", 1, BattleHex),
     A3 |-> UnitGroup("A", "ColonyShip", 1, BattleHex),
     B1 |-> UnitGroup("B", "Picket", 2, BattleHex),
     B2 |-> UnitGroup("B", "Scout", 1, BattleHex)]

ReplayGroups ==
    {SkirmishGroups,
     [A1 |-> UnitGroup("A", "Scout", 1, BattleHex),
      B1 |-> UnitGroup("B", "Scout", 1, BattleHex)]}

InitReplay ==
    /\ active_player = "A"
    /\ turn_number = 1
    /\ unit_groups \in ReplayGroups
    /\ colonies = ScenarioColonies
    /\ game_map = ScenarioMap
    /\ revealed_to = EmptyDict
    /\ marker_for_viewer = EmptyDict
    /\ group_for_viewer_marker = EmptyDict
    /\ next_marker_index = EmptyDict
    /\ pending_orders = EmptyDict
    /\ events = <<>>
    /\ pc = "combat"
    /\ order_idx = 1
    /\ combat_sites = {BattleHex}
    /\ battles = <<BattleHex>>
    /\ round_num = 0
    /\ volley_num = 0
    /\ roster = {}
    /\ queued = 0
    /\ hist = NoHist
    /\ twin = [pc |-> "combat", unit_groups |-> unit_groups, fog |-> Fog,
               events |-> <<>>, round_num |-> 0, volley_num |-> 0, roster |-> {}]

\* Both executions enter resolve_combat.
ReplayBegin ==
    /\ twin.pc = "combat"
    /\ CombatBeginStep
    /\ \E viewers \in SeqsOf(OwnersAlive(twin.unit_groups, BattleHex)) :
         LET b == rc_begin(twin.unit_groups, twin.fog, BattleHex, viewers)
         IN twin' = [twin EXCEPT
                !.fog = b.fog,
                !.events = @ \o << <<"Combat at", BattleHex>> >> \o b.events,
                !.pc = IF b.opposed THEN "round" ELSE "done"]

ReplayRound ==
    /\ twin.pc = "round"
    /\ RoundBeginStep
    /\ LET r == rc_round(twin.unit_groups, BattleHex, twin.round_num, twin.roster)
       IN twin' = [twin EXCEPT
              !.round_num = r.round_num, !.roster = r.roster,
              !.events = @ \o r.events,
              !.volley_num = IF r.open THEN 0 ELSE @,
              !.pc = IF r.open THEN "volley" ELSE "done"]

\* Both executions draw the same rolls as long as they make the same
\* calls of the generator; an execution that shoots with other groups
\* reads the stream differently.
ReplayVolley ==
    /\ twin.pc = "volley"
    /\ VolleyPending(twin.unit_groups, BattleHex, twin.roster)
    /\ \E hv \in HitRolls(unit_groups, BattleHex, roster) :
       \E hv2 \in HitRolls(twin.unit_groups, BattleHex, twin.roster) :
         /\ (/\ DOMAIN hv = DOMAIN hv2
             /\ \A a \in DOMAIN hv : unit_groups[a].count = twin.unit_groups[a].count)
                => hv2 = hv
         /\ VolleyFireStep(hv)
         /\ LET v == rc_volley(twin.unit_groups, BattleHex, twin.roster,
                               twin.volley_num, hv2)
            IN twin' = [twin EXCEPT
                   !.unit_groups = v.ug, !.roster = v.roster,
                   !.volley_num = v.volley_num, !.events = @ \o v.events]

ReplayRoundEnd ==
    /\ twin.pc = "volley"
    /\ ~VolleyPending(twin.unit_groups, BattleHex, twin.roster)
    /\ RoundEndStep
    /\ twin' = [twin EXCEPT !.roster = {},
                   !.events = @ \o << <<"Round ends", twin.round_num>> >>,
                   !.pc = "round"]

NextReplay ==
    \/ ReplayBegin
    \/ ReplayRound
    \/ ReplayVolley
    \/ ReplayRoundEnd

SpecReplay == InitReplay /\ [][NextReplay]_vars

\* Both executions have returned.
ReplayDone == pc = "combat" /\ battles = <<>> /\ twin.pc = "done"

\* ==================================================================
\* Properties
\* ==================================================================
\* The player after p in player order.
Successor(p) ==
    LET i == CHOOSE k \in 1..Len(Players) : Players[k] = p
    IN IF i = Len(Players) THEN Players[1] ELSE Players[i + 1]

\* The last submit_orders call ran its phases and has returned.
Submitted == pc = "idle" /\ events # <<>> /\ events[1][1] = "SUBMIT"

\* Positions of the "PHASE: name" lines in the events.
PhaseAt(name) ==
    {i \in 1..Len(events) : events[i][1] = "PHASE" /\ events[i][2] = name}

\* C1: submit_orders with an empty queue hands the turn to the next
\* player, increments turn_number exactly when play wraps to the first
\* player, and changes no group, map, colony or fog state.
C1_EmptySubmitPassesTurn ==
    [][(Orders = <<>> /\ SubmitOrders)
         => /\ active_player' = Successor(active_player)
            /\ turn_number' = turn_number
                  + (IF Successor(active_player) = Players[1] THEN 1 ELSE 0)
            /\ UNCHANGED <<unit_groups, game_map, colonies, fogVars>>]_vars

\* Steps between phases that submit_orders may take.
PhaseOrder ==
    {<<"idle", "idle">>, <<"idle", "movement">>, <<"movement", "movement">>,
     <<"movement", "combat">>, <<"combat", "combat">>, <<"combat", "round">>,
     <<"round", "volley">>, <<"round", "combat">>, <<"volley", "volley">>,
     <<"volley", "round">>, <<"combat", "rotate">>, <<"rotate", "idle">>,
     \* an exception raised while exploring abandons the call
     <<"combat", "idle">>}

\* The battle most recently handed to resolve_combat has returned.
LastBattleReturned ==
    events[Len(events)][1] \in {"Combat ends", "no opposing sides", "(no battles)"}

\* One step of submit_orders respects the order of the phases.
PhaseStep ==
    /\ <<pc, pc'>> \in PhaseOrder
    \* orders are applied in the movement phase only, before any battle
    /\ Len(hist'.moves) > Len(hist.moves) => pc = "movement" /\ hist.resolved = <<>>
    \* a battle starts only after every queued order was applied
    /\ Len(hist'.resolved) > Len(hist.resolved)
          => Len(hist.moves) = events[1][3]
    \* ships are hit in the combat phase only
    /\ hist'.hit_at \ hist.hit_at # {} => pc = "volley"
    \* exploration starts only after every battle was resolved
    /\ (pc' = "rotate" \/ game_map' # game_map \/ colonies' # colonies
           \/ (pc = "combat" /\ pc' = "idle"))
          => /\ pc = "combat"
             /\ hist.moved
             /\ hist.resolved = hist.planned
             /\ LastBattleReturned
    \* the turn is handed on only after exploration
    /\ (active_player' # active_player \/ turn_number' # turn_number)
          => pc = "rotate" /\ PhaseAt("Exploration") # {}

\* C2: within one submit_orders call the phases run in the order
\* Movement, Combat, Exploration, rotation: every queued order is applied
\* before any battle, every battle is resolved before any hex is explored,
\* the active player changes only after exploration, and the returned
\* events hold the three PHASE lines in that order.
C2_PhasesInOrder ==
    /\ [][PhaseStep]_vars
    /\ [](Submitted =>
            \E m \in PhaseAt("Movement"), c \in PhaseAt("Combat"),
               x \in PhaseAt("Exploration") :
                /\ m < c /\ c < x
                /\ PhaseAt("Movement") = {m}
                /\ PhaseAt("Combat") = {c}
                /\ PhaseAt("Exploration") = {x}
                /\ \A i \in 1..Len(events) :
                      /\ events[i][1] = "ORDER" => m < i /\ i < c
                      /\ events[i][1] \in {"Combat at", "Combat ends", "Volley"}
                            => c < i /\ i < x
                      /\ events[i][1] = "Explored" => x < i
                      /\ events[i][1] = "Now active" => x < i /\ i = Len(events))

\* A submission with two orders, a battle and an explored hex has returned.
C2_Witness ==
    /\ Submitted
    /\ Len(hist.moves) = 2
    /\ hist.resolved # <<>>
    /\ hist.hit_at # {}
    /\ \E i \in 1..Len(events) : events[i][1] = "Explored"

MoveRecords == {hist.moves[i] : i \in 1..Len(hist.moves)}

\* The enemy groups the mover of m meets in hex h.
EnemiesAt(m, h) ==
    {x \in DOMAIN m.before :
        /\ m.before[x].owner # m.before[m.gid].owner
        /\ m.before[x].location = h}

\* The mover's cloak exceeds the sensors of every enemy in h.
CloakBeatsSensors(m, h) ==
    \A e \in EnemiesAt(m, h) :
        cloak_level(m.before[m.gid]) > sensor_level(m.before[e])

\* h holds an enemy combatant and the mover's cloak does not beat the
\* sensors there.
Contact(m, h) ==
    /\ \E e \in EnemiesAt(m, h) : is_combatant(m.before[e])
    /\ ~CloakBeatsSensors(m, h)

\* h holds enemies, none of them a combatant.
NoncombatOnly(m, h) ==
    /\ EnemiesAt(m, h) # {}
    /\ \A e \in EnemiesAt(m, h) : ~is_combatant(m.before[e])

\* h holds an enemy combatant and the mover's cloak beats every sensor.
CloakedEntry(m, h) ==
    /\ \E e \in EnemiesAt(m, h) : is_combatant(m.before[e])
    /\ CloakBeatsSensors(m, h)

\* The movement and combat phases of the call are over.
CombatPhaseOver == hist.moved /\ pc \in {"rotate", "idle"}

\* At the end of the movement phase two owners have a combatant each in h.
OpposedAfterMovement(h) ==
    \E a, b \in DOMAIN hist.ug_moved :
        /\ hist.ug_moved[a].owner # hist.ug_moved[b].owner
        /\ hist.ug_moved[a].location = h /\ hist.ug_moved[b].location = h
        /\ is_combatant(hist.ug_moved[a]) /\ is_combatant(hist.ug_moved[b])

\* The events record a shot of a group of owner o that stood in h.
FiredAt(o, h) ==
    \E j \in 1..Len(events) :
        /\ events[j][1] = "SHOT"
        /\ hist.ug_moved[events[j][2]].owner = o
        /\ hist.ug_moved[events[j][2]].location = h

\* resolve_combat has just returned from hex h.
JustResolved(h) ==
    /\ pc = "combat"
    /\ hist.resolved # <<>>
    /\ hist.resolved[Len(hist.resolved)] = h

\* A mover that meets an enemy combatant whose sensors it does not beat
\* stops in that hex; the order succeeds and reports the halt.
HaltsOnContact ==
    \A m \in MoveRecords : \A k \in 1..Len(m.trail) :
        Contact(m, m.trail[k]) =>
            /\ k = Len(m.trail)
            /\ m.ok /\ m.msg = "halted"
            /\ m.after[m.gid].location = m.trail[k]
            /\ m.trail[k] \in m.sites

\* The hex in which the order m was halted.
HaltHex(m) == m.trail[Len(m.trail)]

DestroysNoncombat(m, k) ==
    /\ \A e \in EnemiesAt(m, m.trail[k]) : e \notin DOMAIN m.after
    /\ m.trail[k] \notin m.sites
    /\ m.ok
    /\ k < Len(m.path) => Len(m.trail) > k

\* C5 (as amended): when a mover enters a hex whose enemies are all
\* non-combatants, those enemies are removed, the hex is not recorded as a
\* combat site and the mover goes on along its path, cloaked or not; it
\* reaches its destination unless enemy contact halts it in a later hex.
C5_DestroyAndContinue ==
    \A m \in MoveRecords : \A k \in 1..Len(m.trail) :
        NoncombatOnly(m, m.trail[k]) =>
            /\ DestroysNoncombat(m, k)
            /\ \/ m.msg = "Moved" /\ m.after[m.gid].location = m.dest
               \/ /\ m.msg = "halted"
                  /\ Len(m.trail) > k
                  /\ Contact(m, HaltHex(m))

\* A cloaked mover went through a hex of non-combatants and on to its
\* destination.
C5_Witness ==
    \E m \in MoveRecords : \E k \in 1..Len(m.trail) :
        /\ NoncombatOnly(m, m.trail[k])
        /\ CloakBeatsSensors(m, m.trail[k])
        /\ cloak_level(m.before[m.gid]) > 0
        /\ k < Len(m.trail)
        /\ m.msg = "Moved"

\* C5 as written: the mover always reaches its intended destination.
C5_AsWritten ==
    \A m \in MoveRecords : \A k \in 1..Len(m.trail) :
        NoncombatOnly(m, m.trail[k]) =>
            /\ DestroysNoncombat(m, k)
            /\ m.after[m.gid].location = m.dest

\* The mover of m went on from the k-th hex of its path, or ended its
\* path there unhalted.
NotHaltedAt(m, k) ==
    /\ m.ok
    /\ m.trail[k] \notin m.sites
    /\ k < Len(m.path) => Len(m.trail) > k
    /\ k = Len(m.path) => m.msg = "Moved"

\* C6 (as amended): a mover whose cloak exceeds every enemy sensor in a
\* hex holding an enemy combatant is not halted there and goes on along
\* its path; provided it does not end the movement phase in that hex, it
\* is not hit there during the submission.
C6_CloakedPassThrough ==
    \A m \in MoveRecords : \A k \in 1..Len(m.trail) :
        CloakedEntry(m, m.trail[k]) =>
            /\ NotHaltedAt(m, k)
            /\ m.after[m.gid] = [m.before[m.gid] EXCEPT !.location = HaltHex(m)]
            /\ (hist.moved /\ m.gid \in DOMAIN hist.ug_moved
                  /\ hist.ug_moved[m.gid].location # m.trail[k])
                  => <<m.gid, m.trail[k]>> \notin hist.hit_at

\* A cloaked mover went through a picket's hex and the submission returned.
C6_Witness ==
    /\ Submitted
    /\ \E m \in MoveRecords : \E k \in 1..Len(m.trail) :
          /\ CloakedEntry(m, m.trail[k])
          /\ k < Len(m.trail)
          /\ hist.ug_moved[m.gid].location # m.trail[k]

\* C6 as written: the cloaked mover is never hit in that hex during the
\* submission.
C6_AsWritten ==
    \A m \in MoveRecords : \A k \in 1..Len(m.trail) :
        CloakedEntry(m, m.trail[k]) =>
            /\ NotHaltedAt(m, k)
            /\ <<m.gid, m.trail[k]>> \notin hist.hit_at

\* ------------------------------------------------------------------
\* Combat sites and battles (C7, C8)
\* ------------------------------------------------------------------
\* The movement phase has just ended: the combat sites are set and no
\* battle has started.
MovementJustEnded == pc = "combat" /\ hist.moved /\ hist.resolved = <<>>

\* Hexes holding groups of two owners.
SharedHexes ==
    {unit_groups[a].location : a \in {x \in DOMAIN unit_groups :
        \E b \in DOMAIN unit_groups :
            /\ unit_groups[b].owner # unit_groups[x].owner
            /\ unit_groups[b].location = unit_groups[x].location}}

\* C7: after the movement phase every hex holding groups of two or more
\* owners is in the combat-site set handed to battle collection, whether
\* or not a mover was halted there.
C7_ContestedHexesAreSites ==
    MovementJustEnded =>
        /\ SharedHexes \subseteq combat_sites
        /\ \A h \in SharedHexes :
              OpposedAfterMovement(h) => \E i \in 1..Len(battles) : battles[i] = h

\* A shared hex in which no mover was halted: the defender stood still
\* and the mover arrived unhalted.
C7_Witness ==
    /\ MovementJustEnded
    /\ \E h \in SharedHexes :
          /\ \A m \in MoveRecords : m.msg # "halted"
          /\ \E m \in MoveRecords : m.msg = "Moved" /\ m.dest = h
          /\ OpposedAfterMovement(h)

\* The combat phase of the call is running.
InCombatPhase == hist.moved /\ pc \in {"combat", "round", "volley"}

\* C8: a combat site is resolved as a battle only if two distinct owners
\* each have a combatant group in the hex; at a site with fewer than two
\* combatant owners the combat phase resolves nothing and no group there
\* is damaged or removed by it.
C8_BattleNeedsTwoCombatantOwners ==
    /\ \A i \in 1..Len(hist.resolved) : OpposedAfterMovement(hist.resolved[i])
    /\ InCombatPhase =>
          \A h \in combat_sites :
              ~OpposedAfterMovement(h) =>
                  /\ \A i \in 1..Len(hist.resolved) : hist.resolved[i] # h
                  /\ \A i \in 1..Len(events) :
                        events[i][1] = "Combat at" => events[i][2] # h
                  /\ \A g \in DOMAIN hist.ug_moved :
                        hist.ug_moved[g].location = h
                           => /\ g \in DOMAIN unit_groups
                              /\ unit_groups[g] = hist.ug_moved[g]

\* The combat phase is over with a site that two owners share but where
\* only one has a combatant.
C8_Witness ==
    /\ InCombatPhase
    /\ battles = <<>>
    /\ \E h \in combat_sites \cap SharedHexes : ~OpposedAfterMovement(h)

\* ------------------------------------------------------------------
\* Termination of resolve_combat and of the call around it (C9)
\* ------------------------------------------------------------------
LexLess(a, b) ==
    \E i \in 1..Len(a) : a[i] < b[i] /\ \A j \in 1..(i - 1) : a[j] = b[j]

\* What a running submit_orders call has left to do: the phase, the orders
\* or battles ahead, the rounds the cap leaves, the groups yet to fire.
CallMeasure ==
    IF pc = "movement" THEN <<4, Len(Orders) + 1 - order_idx, 0, 0>>
    ELSE IF pc = "combat" THEN <<3, 2 * Len(battles) + 1, 0, 0>>
    ELSE IF pc = "round"
    THEN <<3, 2 * Len(battles), max_rounds + 1 - round_num, 0>>
    ELSE IF pc = "volley"
    THEN <<3, 2 * Len(battles), max_rounds + 1 - round_num, 1 + Cardinality(roster)>>
    ELSE IF pc = "rotate" THEN <<2, 0, 0, 0>>
    ELSE <<1, 0, 0, 0>>

\* The events hold the abort line of the battle in h.
Aborted(h) ==
    \E i \in 1..Len(events) : events[i][1] = "aborted" /\ events[i][2] = h

\* The guard of one of the steps of a running call holds.
StepReady ==
    \/ pc = "movement" /\ (order_idx <= Len(Orders) \/ order_idx > Len(Orders))
    \/ pc = "combat" /\ battles # <<>>
          /\ SeqsOf(OwnersAlive(unit_groups, Head(battles))) # {}
    \/ ExplorationReady
    \/ pc = "round"
    \/ pc = "volley" /\ VolleyPending(unit_groups, Head(battles), roster)
          /\ HitRolls(unit_groups, Head(battles), roster) # {}
    \/ pc = "volley" /\ ~VolleyPending(unit_groups, Head(battles), roster)
    \/ pc = "rotate"

\* The events hold an abort line.
AbortedSome == \E i \in 1..Len(events) : events[i][1] = "aborted"

\* Bounds and exit condition of resolve_combat, and no state of a running
\* call without a next step.
CombatBounded ==
    /\ round_num <= max_rounds + 1
    /\ \A i \in 1..4 : CallMeasure[i] >= 0
    /\ pc = "volley" =>
          /\ 1 <= round_num /\ round_num <= max_rounds
          /\ volley_num + Cardinality(roster) <= Cardinality(GroupIds)
    /\ (pc = "combat" /\ hist.resolved # <<>>) =>
          LET h == hist.resolved[Len(hist.resolved)]
          IN \/ Cardinality(OwnersAlive(unit_groups, h)) < 2
             \/ Aborted(h) /\ round_num = max_rounds + 1
    /\ pc # "idle" => StepReady
    /\ (Submitted /\ AbortedSome) =>
          /\ PhaseAt("Exploration") # {}
          /\ events[Len(events)] = <<"Now active", active_player>>
          /\ active_player = Successor(hist.ap)

\* C9: resolve_combat terminates: at most max_rounds rounds, finitely
\* many volleys a round, and on return fewer than two owners survive in
\* the hex or the cap was hit and the abort line emitted; every step of a
\* running call brings it nearer to its end, so after a stalemate
\* submit_orders still runs exploration and hands the turn on.
C9_CombatTerminates ==
    /\ []CombatBounded
    /\ [][pc # "idle" => LexLess(CallMeasure', CallMeasure)]_vars

\* A submission whose battle hit the cap has returned, the turn handed on.
C9_Witness ==
    /\ Submitted
    /\ AbortedSome
    /\ \E i \in 1..Len(events) :
          events[i][1] = "Round begins" /\ events[i][2] = max_rounds
    /\ events[Len(events)][1] = "Now active"

\* ------------------------------------------------------------------
\* Determinism of resolve_combat (C10), over SpecReplay
\* ------------------------------------------------------------------
\* Both executions leave the same groups with the same counts and damage.
ReplaySameGroups == ReplayDone => unit_groups = twin.unit_groups

\* C10: two executions of resolve_combat from equal game states with the
\* same turn number, hex and triggering owner produce the same event
\* sequence and the same resulting groups, counts and damage.
C10_ReplayIdentical ==
    ReplayDone => events = twin.events /\ unit_groups = twin.unit_groups

\* ==================================================================
\* Fog of war as the front ends drive it (render_ascii, the REPL):
\* get_marker_id, reveal_group_to and resolve_group_id_from_token called
\* between submissions, for any viewer and any group id.
\* ==================================================================
\* Markers a viewer can be handed in the model: M1 .. M<MaxMarkers>.
MaxMarkers == 3

\* Faulty variant: a new group is given the lowest marker not in use.
get_marker_id_reuse(fog, viewer, gid) ==
    LET f == _ensure_viewer_tables(fog, viewer) IN
    IF gid \in DOMAIN f.marker_for_viewer[viewer]
    THEN [fog |-> f, marker |-> f.marker_for_viewer[viewer][gid]]
    ELSE LET n == CHOOSE k \in 1..(f.next_marker_index[viewer]) :
                     /\ k \notin DOMAIN f.group_for_viewer_marker[viewer]
                     /\ \A j \in 1..(k - 1) :
                           j \in DOMAIN f.group_for_viewer_marker[viewer]
         IN [fog |-> [f EXCEPT
                        !.next_marker_index[viewer] = @ + 1,
                        !.marker_for_viewer[viewer] = DictPut(@, gid, n),
                        !.group_for_viewer_marker[viewer] = DictPut(@, n, gid)],
             marker |-> n]

\* get_marker_id(viewer, group_id): the fog tables after the call and the
\* marker returned (n standing for f"M{n}"; "Mn".upper() is "Mn").
get_marker_id(fog, viewer, gid) ==
    LET f == _ensure_viewer_tables(fog, viewer) IN
    IF gid \in DOMAIN f.marker_for_viewer[viewer]
    THEN [fog |-> f, marker |-> f.marker_for_viewer[viewer][gid]]
    ELSE LET n == f.next_marker_index[viewer]
         IN [fog |-> [f EXCEPT
                        !.next_marker_index[viewer] = n + 1,
                        !.marker_for_viewer[viewer] = DictPut(@, gid, n),
                        !.group_for_viewer_marker[viewer] = DictPut(@, n, gid)],
             marker |-> n]

\* A token as typed: the text of a group id or of a marker, in upper or
\* in lower case (surrounding blanks are stripped and change nothing).
Token(kind, val, lower) == [kind |-> kind, val |-> val, lower |-> lower]

\* token.upper()
TokenUpper(t) == [t EXCEPT !.lower = FALSE]

NoGroup == "None"

\* resolve_group_id_from_token(viewer, token): the fog tables after the
\* call and the group id returned (NoGroup for None).  The registry is
\* searched with the token as typed, the marker table with its upper case.
resolve_group_id_from_token(fog, ug, viewer, token) ==
    LET f == _ensure_viewer_tables(fog, viewer)
        t == TokenUpper(token)
    IN IF token.kind = "id" /\ ~token.lower /\ token.val \in DOMAIN ug
       THEN [fog |-> f, gid |-> token.val]
       ELSE IF t.kind = "marker" /\ t.val \in DOMAIN f.group_for_viewer_marker[viewer]
       THEN [fog |-> f, gid |-> f.group_for_viewer_marker[viewer][t.val]]
       ELSE [fog |-> f, gid |-> NoGroup]

SetFog(f) ==
    /\ revealed_to' = f.revealed_to
    /\ marker_for_viewer' = f.marker_for_viewer
    /\ group_for_viewer_marker' = f.group_for_viewer_marker
    /\ next_marker_index' = f.next_marker_index

\* Group ids of the fog scenario, and the texts a player types for a
\* group id: those ids and one id that is in no registry.
FogGroupIds == {"A1", "B1", "B2", "B3"}

Tokens ==
    {Token("id", g, l) : g \in FogGroupIds \cup {"Z9"}, l \in BOOLEAN}
    \cup {Token("marker", n, l) : n \in 1..MaxMarkers, l \in BOOLEAN}

\* The counter of a viewer, 1 before its tables exist.
NextMarkerOf(v) == IF v \in DOMAIN next_marker_index THEN next_marker_index[v] ELSE 1

\* The front ends ask for the marker of a group of another player
\* (render_occupants, inspect_group).
GetMarkerId ==
    /\ pc = "idle"
    /\ \E viewer \in PlayerSet :
       \E gid \in {g \in DOMAIN unit_groups : unit_groups[g].owner # viewer} :
          LET r == get_marker_id(Fog, viewer, gid)
          IN /\ r.marker <= MaxMarkers
             /\ SetFog(r.fog)
             /\ events' = << <<"marker", r.marker>> >>
             /\ hist' = [hist EXCEPT !.handed = @ \cup {<<viewer, r.marker, gid>>}]
    /\ UNCHANGED <<active_player, turn_number, unit_groups, colonies, game_map,
                   pending_orders, pc, callVars, queued, twin>>

\* A group of another player is revealed to a viewer (a viewer's own
\* groups are never given markers; revealing them is left out).
RevealGroupTo ==
    /\ pc = "idle"
    /\ \E viewer \in PlayerSet :
       \E gid \in {g \in DOMAIN unit_groups : unit_groups[g].owner # viewer} :
          /\ SetFog(reveal_group_to(Fog, viewer, gid))
          /\ events' = << <<"reveal", viewer, gid>> >>
    /\ UNCHANGED <<active_player, turn_number, unit_groups, colonies, game_map,
                   pending_orders, pc, callVars, queued, hist, twin>>

ResolveToken ==
    /\ pc = "idle"
    /\ \E viewer \in PlayerSet, token \in Tokens :
          LET r == resolve_group_id_from_token(Fog, unit_groups, viewer, token)
          IN /\ SetFog(r.fog)
             /\ events' = << <<"resolve", r.gid>> >>
    /\ UNCHANGED <<active_player, turn_number, unit_groups, colonies, game_map,
                   pending_orders, pc, callVars, queued, hist, twin>>

FogGroups ==
    ("A1" :> UnitGroup("A", "Scout", 1, A_HOME))
    @@ ("B1" :> UnitGroup("B", "Scout", 1, <<1, 0>>))
    @@ ("B2" :> UnitGroup("B", "Decoy", 1, B_HOME))
    @@ ("B3" :> UnitGroup("B", "Scout", 1, B_HOME))

InitFog ==
    /\ active_player = Players[1]
    /\ turn_number = 1
    /\ unit_groups = FogGroups
    /\ colonies = ScenarioColonies
    /\ game_map = ScenarioMap
    /\ revealed_to = EmptyDict
    /\ marker_for_viewer = EmptyDict
    /\ group_for_viewer_marker = EmptyDict
    /\ next_marker_index = EmptyDict
    /\ pending_orders = EmptyDict
    /\ events = <<>>
    /\ pc = "idle"
    /\ order_idx = 1
    /\ combat_sites = {}
    /\ battles = <<>>
    /\ round_num = 0
    /\ volley_num = 0
    /\ roster = {}
    /\ queued = 0
    /\ hist = NoHist
    /\ twin = NoTwin

NextFog ==
    \/ GetMarkerId
    \/ RevealGroupTo
    \/ ResolveToken

SpecFog == InitFog /\ [][NextFog]_vars

\* ------------------------------------------------------------------
\* Markers and reveals (C11, C12), over SpecFog
\* ------------------------------------------------------------------
\* The <<viewer, marker, group id>> triples handed to viewer v so far.
HandedTo(v) == {t \in hist.handed : t[1] = v}

\* The marker table of viewer v, empty before its tables exist.
MarkersOf(v) == IF v \in DOMAIN marker_for_viewer THEN marker_for_viewer[v] ELSE EmptyDict

\* The reverse table of viewer v, empty before its tables exist.
GroupsByMarkerOf(v) ==
    IF v \in DOMAIN group_for_viewer_marker THEN group_for_viewer_marker[v]
    ELSE EmptyDict

RevealedTo(v) == IF v \in DOMAIN revealed_to THEN revealed_to[v] ELSE {}

\* The markers handed to a viewer are M1 .. Mk with the counter at k + 1,
\* no marker was ever handed out for two groups, and both tables hold
\* only pairs that were handed out, each the mirror of the other.
MarkersStable ==
    \A v \in PlayerSet :
        /\ {t[2] : t \in HandedTo(v)} = 1..(NextMarkerOf(v) - 1)
        /\ \A t, u \in HandedTo(v) : t[2] = u[2] => t[3] = u[3]
        /\ \A g \in DOMAIN MarkersOf(v) :
              /\ <<v, MarkersOf(v)[g], g>> \in hist.handed
              /\ MarkersOf(v)[g] \in DOMAIN GroupsByMarkerOf(v)
              /\ GroupsByMarkerOf(v)[MarkersOf(v)[g]] = g
        /\ \A n \in DOMAIN GroupsByMarkerOf(v) :
              /\ GroupsByMarkerOf(v)[n] \in DOMAIN MarkersOf(v)
              /\ MarkersOf(v)[GroupsByMarkerOf(v)[n]] = n

\* A call of get_marker_id returns.
MarkerReturned == events' # <<>> /\ events'[1][1] = "marker"

\* One step of the fog operations: a counter never goes back; a marker
\* handed out for the first time is the one the counter stood at and goes
\* to a group that had none, and the counter advances by one; a call that
\* hands out nothing new leaves the counters and the marker tables as
\* they were.
MarkerStep ==
    /\ \A v \in PlayerSet : NextMarkerOf(v)' >= NextMarkerOf(v)
    /\ MarkerReturned =>
          /\ \A t \in hist'.handed \ hist.handed :
                /\ t[2] = events'[1][2]
                /\ t[2] = NextMarkerOf(t[1])
                /\ NextMarkerOf(t[1])' = t[2] + 1
                /\ t[3] \notin DOMAIN MarkersOf(t[1])
                /\ MarkersOf(t[1])' = DictPut(MarkersOf(t[1]), t[3], t[2])
                /\ \A w \in PlayerSet \ {t[1]} :
                      /\ NextMarkerOf(w)' = NextMarkerOf(w)
                      /\ MarkersOf(w)' = MarkersOf(w)
          /\ hist'.handed = hist.handed =>
                \A v \in PlayerSet :
                    /\ NextMarkerOf(v)' = NextMarkerOf(v)
                    /\ MarkersOf(v)' = MarkersOf(v)
                    /\ GroupsByMarkerOf(v)' = GroupsByMarkerOf(v)
          \* a group that holds a marker is handed that marker again
          /\ \A v \in PlayerSet : \A g \in DOMAIN MarkersOf(v) :
                \A t \in hist'.handed \ hist.handed : ~(t[1] = v /\ t[3] = g)

\* C11: for each viewer, get_marker_id hands out M1, M2, M3, ... in the
\* order distinct groups are first requested; a repeated request for a
\* group that still holds its marker returns the same marker and does not
\* advance the counter; a marker once handed out for a group is never
\* handed out for another group, also after the first was revealed.
C11_MarkersStableMonotonic ==
    /\ []MarkersStable
    /\ [][MarkerStep]_vars

\* Viewer A was handed M1, M2 and M3 for three different groups, the
\* holder of M1 having been revealed before M3 was handed out.
C11_Witness ==
    /\ {<<"A", 1, "B1">>, <<"A", 2, "B2">>, <<"A", 3, "B3">>} \subseteq hist.handed
    /\ "B1" \in RevealedTo("A")
    /\ 1 \notin DOMAIN GroupsByMarkerOf("A")
    /\ DOMAIN MarkersOf("A") = {"B2", "B3"}
    /\ events = << <<"marker", 3>> >>
    /\ NextMarkerOf("B") = 2

\* A call of reveal_group_to(viewer, gid) returns.
RevealReturned == events' # <<>> /\ events'[1][1] = "reveal"

\* The group ids a reverse table maps to.
MarkedGroups(f, v) ==
    {f.group_for_viewer_marker[v][n] : n \in DOMAIN f.group_for_viewer_marker[v]}

\* reveal_group_to(viewer, gid) has just returned: the group is revealed
\* to the viewer, neither table of the viewer mentions it, the marker it
\* held resolves to nothing however it is typed, the other viewers'
\* tables are as before, and a second call changes nothing.
RevealStep ==
    RevealReturned =>
        LET v == events'[1][2]
            g == events'[1][3]
            held == g \in DOMAIN MarkersOf(v)
        IN /\ g \in revealed_to'[v]
           /\ g \notin DOMAIN marker_for_viewer'[v]
           /\ g \notin MarkedGroups(Fog', v)
           /\ held =>
                 \A l \in BOOLEAN :
                     resolve_group_id_from_token(Fog', unit_groups', v,
                         Token("marker", MarkersOf(v)[g], l)).gid = NoGroup
           /\ next_marker_index'[v] = NextMarkerOf(v)
           /\ \A w \in PlayerSet \ {v} :
                 /\ RevealedTo(w)' = RevealedTo(w)
                 /\ MarkersOf(w)' = MarkersOf(w)
                 /\ GroupsByMarkerOf(w)' = GroupsByMarkerOf(w)
           /\ reveal_group_to(Fog', v, g) = Fog'

\* C12: reveal_group_to(viewer, group) is idempotent and retires the
\* marker: after one call the group is revealed to the viewer and has no
\* entry in either direction of the viewer's marker tables, the retired
\* marker no longer resolves through resolve_group_id_from_token, and a
\* second call leaves the whole fog state unchanged.
C12_RevealRetiresMarker == [][RevealStep]_vars

\* B2 held M2 for viewer A and reveal_group_to(A, B2) has just returned,
\* M1 still being in use.
C12_Witness ==
    /\ <<"A", 2, "B2">> \in hist.handed
    /\ events = << <<"reveal", "A", "B2">> >>
    /\ "B2" \in RevealedTo("A")
    /\ 2 \notin DOMAIN GroupsByMarkerOf("A")
    /\ 1 \in DOMAIN GroupsByMarkerOf("A")

\* ==================================================================
\* Pathfinding on its own: bfs_path called on maps whose blocked set is
\* built with GameMap.block and GameMap.unblock.
\* ==================================================================
\* Largest number of blocked hexes on the map.
MaxBlocked == 2

unblock(gm, h) == [gm EXCEPT !.blocked = @ \ {h}]

\* Endpoints handed to bfs_path: every hex of the map and two outside it.
PathHexes == MapHexes \cup {<<0 - 1, 0>>, <<MapQMax + 1, MapRMax>>}

BlockHex ==
    /\ pc = "idle"
    /\ \E h \in PathHexes :
          /\ Cardinality(block(game_map, h).blocked) <= MaxBlocked
          /\ game_map' = block(game_map, h)
    /\ events' = <<>>
    /\ UNCHANGED <<active_player, turn_number, unit_groups, colonies, fogVars,
                   pending_orders, pc, callVars, queued, hist, twin>>

UnblockHex ==
    /\ pc = "idle"
    /\ \E h \in PathHexes : game_map' = unblock(game_map, h)
    /\ events' = <<>>
    /\ UNCHANGED <<active_player, turn_number, unit_groups, colonies, fogVars,
                   pending_orders, pc, callVars, queued, hist, twin>>

\* bfs_path(game_map, start, goal); the returned value is kept with the
\* arguments of the call.
FindPath ==
    /\ pc = "idle"
    /\ \E start \in PathHexes, goal \in PathHexes :
          LET p == bfs_path(game_map, start, goal)
          IN events' = << <<"bfs_path", start, goal, p.found, p.path>> >>
    /\ UNCHANGED <<gameVars, pending_orders, pc, callVars, queued, hist, twin>>

InitPath ==
    /\ active_player = Players[1]
    /\ turn_number = 1
    /\ unit_groups = EmptyDict
    /\ colonies = EmptyDict
    /\ game_map = [ScenarioMap EXCEPT !.explored = {}, !.hex_contents = EmptyDict]
    /\ revealed_to = EmptyDict
    /\ marker_for_viewer = EmptyDict
    /\ group_for_viewer_marker = EmptyDict
    /\ next_marker_index = EmptyDict
    /\ pending_orders = EmptyDict
    /\ events = <<>>
    /\ pc = "idle"
    /\ order_idx = 1
    /\ combat_sites = {}
    /\ battles = <<>>
    /\ round_num = 0
    /\ volley_num = 0
    /\ roster = {}
    /\ queued = 0
    /\ hist = NoHist
    /\ twin = NoTwin

NextPath ==
    \/ BlockHex
    \/ UnblockHex
    \/ FindPath

SpecPath == InitPath /\ [][NextPath]_vars

\* ------------------------------------------------------------------
\* Pathfinding (C13, C14), over SpecPath
\* ------------------------------------------------------------------
\* The last call was bfs_path; its arguments and its result.
PathCalled == events # <<>> /\ events[1][1] = "bfs_path"

PathStart == events[1][2]

PathGoal == events[1][3]

PathFound == events[1][4]

PathResult == events[1][5]

Adjacent(a, b) == hex_distance(a, b) = 1

\* The hex reached from h in the i-th direction of DIRS.
StepIn(h, i) == <<h[1] + DIRS[i][1], h[2] + DIRS[i][2]>>

\* The first neighbour of h, in the order of DIRS, that is on the map and
\* one step nearer to goal.
NearerDirs(h, goal) ==
    {i \in 1..6 : /\ in_bounds(game_map, StepIn(h, i))
                  /\ hex_distance(StepIn(h, i), goal) = hex_distance(h, goal) - 1}

FirstNearer(h, goal) ==
    StepIn(h, CHOOSE i \in NearerDirs(h, goal) : \A j \in NearerDirs(h, goal) : i <= j)

\* Among the shortest paths of an open map, the one whose directions come
\* first in the order of DIRS, step by step.
RECURSIVE FirstShortest(_, _)
FirstShortest(h, goal) ==
    IF h = goal THEN <<>>
    ELSE <<FirstNearer(h, goal)>> \o FirstShortest(FirstNearer(h, goal), goal)

\* C13: on a map with no blocked hexes, for distinct in-bounds start and
\* goal, bfs_path returns a path of hex_distance(start, goal) steps, the
\* one that the fixed neighbour order selects, and a repeated call with
\* the same map, start and goal returns the identical path.
C13_OpenMapShortestPath ==
    /\ [](  (/\ PathCalled
             /\ game_map.blocked = {}
             /\ PathStart # PathGoal
             /\ in_bounds(game_map, PathStart)
             /\ in_bounds(game_map, PathGoal))
          => /\ PathFound
             /\ Len(PathResult) = hex_distance(PathStart, PathGoal)
             /\ PathResult = FirstShortest(PathStart, PathGoal))
    /\ [][(/\ PathCalled
           /\ events' # <<>>
           /\ events'[1][1] = "bfs_path"
           /\ events'[1][2] = PathStart
           /\ events'[1][3] = PathGoal
           /\ game_map' = game_map)
          => events' = events]_vars

\* On the open map the path from (0,0) to (2,1) was returned: three
\* shortest paths exist and the one through (1,0) and (2,0) is taken.
C13_Witness ==
    /\ PathCalled
    /\ game_map.blocked = {}
    /\ PathStart = <<0, 0>>
    /\ PathGoal = <<2, 1>>
    /\ PathFound
    /\ PathResult = << <<1, 0>>, <<2, 0>>, <<2, 1>> >>

\* The hexes reachable from the set S through passable hexes.
RECURSIVE ReachSet(_)
ReachSet(S) ==
    LET n == S \cup {h \in MapHexes :
                        is_passable(game_map, h) /\ \E s \in S : Adjacent(s, h)}
    IN IF n = S THEN S ELSE ReachSet(n)

Reachable(start, goal) == goal \in ReachSet({start})

\* A returned path leaves out the start, ends at the goal, goes from
\* neighbour to neighbour and holds passable hexes only.
PathWellFormed ==
    /\ \A i \in 1..Len(PathResult) :
          /\ PathResult[i] # PathStart
          /\ is_passable(game_map, PathResult[i])
          /\ Adjacent(IF i = 1 THEN PathStart ELSE PathResult[i - 1], PathResult[i])
    /\ IF PathResult = <<>> THEN PathStart = PathGoal
       ELSE PathResult[Len(PathResult)] = PathGoal

\* The cases in which no path is to be returned.
NoPathDue ==
    \/ ~is_passable(game_map, PathStart)
    \/ ~is_passable(game_map, PathGoal)
    \/ ~Reachable(PathStart, PathGoal)

PathContract ==
    /\ PathFound => PathWellFormed
    /\ ~PathFound <=> NoPathDue

\* The contract holds for every call with start # goal.
PathContractDistinct == (PathCalled /\ PathStart # PathGoal) => PathContract

\* C14: every path returned by bfs_path excludes the start hex, ends at
\* the goal, moves between adjacent hexes and contains only passable
\* hexes; bfs_path returns no path exactly when the goal cannot be
\* reached through passable hexes or when either endpoint is impassable.
C14_PathContract == PathCalled => PathContract

\* ==================================================================
\* sim/persistence.py : game_to_json / game_from_json.
\*
\* The JSON document is the record game_to_dict builds; json.dumps with
\* sort_keys and json.loads turn it into text and back, which keeps a
\* value made of dicts with string keys, lists, strings, integers and
\* booleans as it is.  A decimal string is the pair <<"str", n>>, and a
\* hex key "q,r" the pair of its two decimal strings.
\* ==================================================================
IntStr(n) == <<"str", n>>

ParseInt(s) == s[2]

_hex_key(h) == <<IntStr(h[1]), IntStr(h[2])>>

_hex_from_key(s) == <<ParseInt(s[1]), ParseInt(s[2])>>

\* sorted(...) of a set of group ids / of hexes by (q, r); the order of a
\* sorted list of hex keys is of no consequence, the loader makes a set.
RECURSIVE SortIds(_)
SortIds(S) ==
    IF S = {} THEN <<>>
    ELSE LET m == CHOOSE a \in S : \A b \in S : GroupRank[a] <= GroupRank[b]
         IN <<m>> \o SortIds(S \ {m})

_unit_type_to_dict(name) ==
    LET ut == UnitTypes[name] IN
    [name |-> name, movement |-> ut.movement, is_combatant |-> ut.is_combatant,
     initiative |-> ut.initiative, attack |-> ut.attack, defense |-> ut.defense,
     hull |-> ut.hull, builtin_cloak |-> ut.builtin_cloak,
     builtin_sensors |-> ut.builtin_sensors, can_colonize |-> ut.can_colonize,
     can_mine |-> ut.can_mine]

\* The name and the statistics of the UnitType the loader builds.
_unit_type_from_dict(d) ==
    [name |-> d.name,
     stats |-> UnitType(d.movement, d.is_combatant, d.initiative, d.attack,
                        d.defense, d.hull, d.builtin_cloak, d.builtin_sensors,
                        d.can_colonize, d.can_mine)]

_group_to_dict(gid, g) ==
    [group_id |-> gid, owner |-> g.owner,
     unit_type |-> _unit_type_to_dict(g.unit_type), count |-> g.count,
     location |-> _hex_key(g.location), tactics |-> g.tactics,
     cloak_bonus |-> g.cloak_bonus, sensors_bonus |-> g.sensors_bonus,
     attack_bonus |-> g.attack_bonus, defense_bonus |-> g.defense_bonus,
     damage |-> g.damage, cargo_minerals |-> g.cargo_minerals]

\* hasattr(g, "cargo_minerals") for a group fresh from UnitGroup(...):
\* the constructor sets no such attribute (the field cargo_minerals of the
\* model's group record is what getattr(g, "cargo_minerals", 0) reads).
FreshGroupHasCargo == FALSE

_group_from_dict(d) ==
    LET ut == _unit_type_from_dict(d.unit_type)
        g == [UnitGroup(d.owner, ut.name, d.count, _hex_from_key(d.location))
                 EXCEPT !.tactics = d.tactics, !.cloak_bonus = d.cloak_bonus,
                        !.sensors_bonus = d.sensors_bonus,
                        !.attack_bonus = d.attack_bonus,
                        !.defense_bonus = d.defense_bonus]
        g1 == [g EXCEPT !.damage = d.damage]
    IN IF FreshGroupHasCargo THEN [g1 EXCEPT !.cargo_minerals = d.cargo_minerals]
       ELSE g1

_map_to_dict(m) ==
    [bounds |-> [q_min |-> m.q_min, q_max |-> m.q_max,
                 r_min |-> m.r_min, r_max |-> m.r_max],
     blocked |-> {_hex_key(h) : h \in m.blocked},
     explored |-> {_hex_key(h) : h \in m.explored},
     hex_contents |-> [k \in {_hex_key(h) : h \in DOMAIN m.hex_contents} |->
                          m.hex_contents[_hex_from_key(k)]]]

_map_from_dict(d) ==
    [q_min |-> d.bounds.q_min, q_max |-> d.bounds.q_max,
     r_min |-> d.bounds.r_min, r_max |-> d.bounds.r_max,
     blocked |-> {_hex_from_key(s) : s \in d.blocked},
     explored |-> {_hex_from_key(s) : s \in d.explored},
     hex_contents |-> [h \in {_hex_from_key(k) : k \in DOMAIN d.hex_contents} |->
                          d.hex_contents[_hex_key(h)]]]

_colony_to_dict(loc, c) ==
    [location |-> _hex_key(loc), owner |-> c.owner, level |-> c.level,
     homeworld |-> c.homeworld, minerals_delivered |-> c.minerals_delivered]

_colony_from_dict(d) ==
    [loc |-> _hex_from_key(d.location),
     colony |-> [Colony(d.owner, d.level, d.homeworld)
                    EXCEPT !.minerals_delivered = d.minerals_delivered]]

_orders_to_list(orders) ==
    [i \in 1..Len(orders) |->
        [type |-> "move", group_id |-> orders[i].group_id,
         dest |-> _hex_key(orders[i].dest)]]

_orders_from_list(items) ==
    [i \in 1..Len(items) |-> MoveOrder(items[i].group_id, _hex_from_key(items[i].dest))]

\* The part of a GameState that is saved, as one record.
Game ==
    [players |-> Players, active_player |-> active_player,
     turn_number |-> turn_number, game_map |-> game_map,
     unit_groups |-> unit_groups, colonies |-> colonies,
     revealed_to |-> revealed_to, marker_for_viewer |-> marker_for_viewer,
     group_for_viewer_marker |-> group_for_viewer_marker,
     next_marker_index |-> next_marker_index, pending_orders |-> pending_orders]

game_to_dict(game) ==
    LET gids == SortIds(DOMAIN game.unit_groups)
        locs == SortHexes(DOMAIN game.colonies)
    IN [schema_version |-> 1,
        players |-> game.players,
        active_player |-> game.active_player,
        turn_number |-> game.turn_number,
        map |-> _map_to_dict(game.game_map),
        groups |-> [i \in 1..Len(gids) |->
                       _group_to_dict(gids[i], game.unit_groups[gids[i]])],
        colonies |-> [i \in 1..Len(locs) |->
                         _colony_to_dict(locs[i], game.colonies[locs[i]])],
        revealed_to |-> [v \in DOMAIN game.revealed_to |->
                            SortIds(game.revealed_to[v])],
        marker_for_viewer |-> game.marker_for_viewer,
        group_for_viewer_marker |-> game.group_for_viewer_marker,
        next_marker_index |-> game.next_marker_index,
        pending_orders |-> [p \in DOMAIN game.pending_orders |->
                               _orders_to_list(game.pending_orders[p])]]

\* "for g_d in data['groups']: game.unit_groups[g.group_id] = g"
RECURSIVE GroupsFromList(_)
GroupsFromList(items) ==
    IF items = <<>> THEN EmptyDict
    ELSE LET d == items[Len(items)]
         IN DictPut(GroupsFromList(SubSeq(items, 1, Len(items) - 1)),
                    d.group_id, _group_from_dict(d))

RECURSIVE ColoniesFromList(_)
ColoniesFromList(items) ==
    IF items = <<>> THEN EmptyDict
    ELSE LET c == _colony_from_dict(items[Len(items)])
         IN DictPut(ColoniesFromList(SubSeq(items, 1, Len(items) - 1)),
                    c.loc, c.colony)

game_from_dict(data) ==
    [players |-> data.players,
     active_player |-> data.active_player,
     turn_number |-> data.turn_number,
     game_map |-> _map_from_dict(data.map),
     unit_groups |-> GroupsFromList(data.groups),
     colonies |-> ColoniesFromList(data.colonies),
     revealed_to |-> [v \in DOMAIN data.revealed_to |->
                         SeqToSet(data.revealed_to[v])],
     marker_for_viewer |-> data.marker_for_viewer,
     group_for_viewer_marker |-> data.group_for_viewer_marker,
     next_marker_index |-> data.next_marker_index,
     pending_orders |-> [p \in DOMAIN data.pending_orders |->
                            _orders_from_list(data.pending_orders[p])]]

\* ------------------------------------------------------------------
\* Saving and loading a game.  The states saved are states of play: a
\* mining ship before and after it picked up minerals at (1,1), a
\* battleship with 0 to 2 points of partial damage, fog tables before
\* and after a marker was handed out and retired, an order queue of the
\* active player with 0 to MaxQueued orders.
\* ------------------------------------------------------------------
SavedGroups(cargo, dmg) ==
    ("A1" :> [UnitGroup("A", "MiningShip", 1, IF cargo = 0 THEN A_HOME ELSE <<1, 1>>)
                 EXCEPT !.cargo_minerals = cargo])
    @@ ("B1" :> [UnitGroup("B", "Battleship", 1, B_HOME) EXCEPT !.damage = dmg])

SavedMap(cargo, blk) ==
    [ScenarioMap EXCEPT
        !.blocked = blk,
        !.explored = IF cargo = 0 THEN @ ELSE @ \cup {<<1, 1>>},
        !.hex_contents = IF cargo = 0 THEN @ ELSE DictPut(@, <<1, 1>>, "CLEAR")]

EmptyFog ==
    [revealed_to |-> EmptyDict, marker_for_viewer |-> EmptyDict,
     group_for_viewer_marker |-> EmptyDict, next_marker_index |-> EmptyDict]

SavedFogs ==
    {EmptyFog,
     get_marker_id(EmptyFog, "A", "B1").fog,
     reveal_group_to(reveal_group_to(get_marker_id(EmptyFog, "A", "B1").fog, "A", "B1"),
                     "B", "A1")}

\* The queues the player p can have built with queue_move.
SavedQueues(p) ==
    LET own == IF p = "A" THEN "A1" ELSE "B1" IN
    {EmptyDict} \cup
    {(p :> q) : q \in {s \in UNION {[1..n -> {MoveOrder(own, <<1, 0>>), MoveOrder(own, <<2, 1>>)}] :
                                      n \in 0..MaxQueued} : TRUE}}

InitPersist ==
    /\ active_player \in PlayerSet
    /\ turn_number \in 1..2
    /\ \E cargo \in 0..1, dmg \in 0..2, blk \in {{}, {<<1, 0>>}} :
          /\ unit_groups = SavedGroups(cargo, dmg)
          /\ game_map = SavedMap(cargo, blk)
    /\ colonies \in {ScenarioColonies,
                     [ScenarioColonies EXCEPT ![A_HOME].minerals_delivered = 1]}
    /\ \E f \in SavedFogs :
          /\ revealed_to = f.revealed_to
          /\ marker_for_viewer = f.marker_for_viewer
          /\ group_for_viewer_marker = f.group_for_viewer_marker
          /\ next_marker_index = f.next_marker_index
    /\ pending_orders \in SavedQueues(active_player)
    /\ events = <<>>
    /\ pc = "idle"
    /\ order_idx = 1
    /\ combat_sites = {}
    /\ battles = <<>>
    /\ round_num = 0
    /\ volley_num = 0
    /\ roster = {}
    /\ queued = 0
    /\ hist = NoHist
    /\ twin = NoTwin

\* game_to_json(game): the document is returned; twin keeps the state
\* that was saved, for comparison with the one loaded later.
SaveGame ==
    /\ pc = "idle"
    /\ twin.pc = "none"
    /\ events' = << <<"json", game_to_dict(Game)>> >>
    /\ twin' = [pc |-> "saved", game |-> Game]
    /\ UNCHANGED <<gameVars, pending_orders, pc, callVars, queued, hist>>

\* game_from_json(s): the game built from the document takes the place
\* of the running one.
LoadGame ==
    /\ pc = "idle"
    /\ twin.pc = "saved"
    /\ LET g == game_from_dict(events[1][2])
       IN /\ active_player' = g.active_player
          /\ turn_number' = g.turn_number
          /\ game_map' = g.game_map
          /\ unit_groups' = g.unit_groups
          /\ colonies' = g.colonies
          /\ revealed_to' = g.revealed_to
          /\ marker_for_viewer' = g.marker_for_viewer
          /\ group_for_viewer_marker' = g.group_for_viewer_marker
          /\ next_marker_index' = g.next_marker_index
          /\ pending_orders' = g.pending_orders
    /\ events' = <<>>
    /\ twin' = [twin EXCEPT !.pc = "loaded"]
    /\ UNCHANGED <<pc, callVars, queued, hist>>

NextPersist ==
    \/ SaveGame
    \/ LoadGame

SpecPersist == InitPersist /\ [][NextPersist]_vars

\* ------------------------------------------------------------------
\* Round trip (C15), over SpecPersist
\* ------------------------------------------------------------------
Loaded == twin.pc = "loaded"

\* A group without its mineral cargo.
SansCargo(g) == [g EXCEPT !.cargo_minerals = 0]

\* Everything but the mineral cargo of the groups comes back as saved,
\* and the unit types are rebuilt with the statistics they had.
RoundTripSansCargo ==
    Loaded =>
        /\ [Game EXCEPT !.unit_groups = EmptyDict]
              = [twin.game EXCEPT !.unit_groups = EmptyDict]
        /\ DOMAIN unit_groups = DOMAIN twin.game.unit_groups
        /\ \A x \in DOMAIN unit_groups :
              /\ SansCargo(unit_groups[x]) = SansCargo(twin.game.unit_groups[x])
              /\ _unit_type_from_dict(_unit_type_to_dict(unit_groups[x].unit_type)).stats
                    = UnitTypes[unit_groups[x].unit_type]

\* C15: game_from_json(game_to_json(g)) has the same players and active
\* player, turn counter, map bounds, blocked, explored and terrain, the
\* same groups (id, owner, type, count, location, modifiers, partial
\* damage, mineral cargo), colonies, per-viewer revealed sets, marker
\* tables and counters, and the same pending orders per player as g.
C15_RoundTrip == Loaded => Game = twin.game

\* ==================================================================
\* Play in which a turn can also be passed without a submission (the
\* "end" command of the REPL calls end_turn() directly), so that a queue
\* can outlive the groups it names.
\* ==================================================================
\* A's colony ship within reach of B's picket, A's scout next to it.
StaleGroups ==
    ("A1" :> UnitGroup("A", "Scout", 1, A_HOME))
    @@ ("A3" :> UnitGroup("A", "ColonyShip", 1, <<1, 0>>))
    @@ ("B1" :> UnitGroup("B", "Picket", 1, B_HOME))

InitTurns ==
    /\ active_player = Players[1]
    /\ turn_number = 1
    /\ unit_groups = StaleGroups
    /\ colonies = ScenarioColonies
    /\ game_map = ScenarioMap
    /\ revealed_to = EmptyDict
    /\ marker_for_viewer = EmptyDict
    /\ group_for_viewer_marker = EmptyDict
    /\ next_marker_index = EmptyDict
    /\ pending_orders = EmptyDict
    /\ events = <<>>
    /\ pc = "idle"
    /\ order_idx = 1
    /\ combat_sites = {}
    /\ battles = <<>>
    /\ round_num = 0
    /\ volley_num = 0
    /\ roster = {}
    /\ queued = 0
    /\ hist = NoHist
    /\ twin = NoTwin

\* Turns are passed only while turn_number is below MaxTurn.
MaxTurn == 2

\* end_turn() called on its own.
PassTurn ==
    /\ pc = "idle"
    /\ turn_number < MaxTurn
    /\ LET t == end_turn(active_player, turn_number)
       IN /\ active_player' = t.active_player
          /\ turn_number' = t.turn_number
    /\ events' = <<>>
    /\ hist' = NoHist
    /\ UNCHANGED <<unit_groups, colonies, game_map, fogVars, pending_orders, pc,
                   callVars, queued, twin>>

NextTurns ==
    \/ QueueMove
    \/ UndoLastOrder
    \/ ClearOrders
    \/ SubmitOrders
    \/ MoveStep
    \/ MovementEnd
    \/ CombatBegin
    \/ RoundBegin
    \/ VolleyFire
    \/ RoundEnd
    \/ ExplorationPhase
    \/ EndTurn
    \/ PassTurn

SpecTurns == InitTurns /\ [][NextTurns]_vars

\* ------------------------------------------------------------------
\* The order queue (C16, C17), over SpecTurns
\* ------------------------------------------------------------------
\* list_orders(p): the queue of player p, empty before it exists.
QueueOf(po, p) == IF p \in DOMAIN po THEN po[p] ELSE <<>>

\* queue_move, undo_last_order or clear_orders returns.
QueueOpReturned == events' # <<>> /\ events'[1][1] = "RET"

\* Nothing but the active player's queue is touched.
QueueFrame ==
    /\ UNCHANGED <<active_player, turn_number, unit_groups, colonies, game_map,
                   fogVars>>
    /\ \A p \in PlayerSet \ {active_player} :
          /\ (p \in DOMAIN pending_orders') = (p \in DOMAIN pending_orders)
          /\ QueueOf(pending_orders', p) = QueueOf(pending_orders, p)

\* What the operation did to the active player's queue, by its answer.
QueueEffect ==
    LET q == QueueOf(pending_orders, active_player)
        q2 == QueueOf(pending_orders', active_player)
        ok == events'[1][2]
        msg == events'[1][3]
    IN /\ msg \in {"Queued", "Undid", "Cleared", "No such group.",
                   "You don't control that group.", "No orders to undo."}
       /\ ok = (msg \in {"Queued", "Undid", "Cleared"})
       /\ msg = "Queued" => Len(q2) = Len(q) + 1 /\ SubSeq(q2, 1, Len(q)) = q
       /\ msg = "Undid" => q # <<>> /\ q2 = SubSeq(q, 1, Len(q) - 1)
       /\ msg = "Cleared" => q2 = <<>>
       /\ msg = "No orders to undo." => q = <<>> /\ q2 = <<>>
       /\ ~ok => q2 = q

\* C16: queue_move, undo_last_order and clear_orders touch only the
\* active player's pending order list: queue_move appends at the end,
\* undo_last_order removes exactly the most recently queued order,
\* clear_orders empties the list, and none of them changes a group
\* location, the map, a colony, the fog tables, the turn counter or
\* another player's queue.
C16_QueueOpsTouchOnlyQueue == [][QueueOpReturned => QueueFrame /\ QueueEffect]_vars

\* undo_last_order has just removed the second of two queued orders.
C16_Witness ==
    /\ events = Ret(TRUE, "Undid")
    /\ Len(QueueOf(pending_orders, active_player)) = 1
    /\ queued = 2

\* A's queue survived a passed turn and B has just queued an order.
QueueOfBothPlayers ==
    /\ events = Ret(TRUE, "Queued")
    /\ active_player = "B"
    /\ QueueOf(pending_orders, "A") # <<>>
    /\ QueueOf(pending_orders, "B") # <<>>

\* The group id names no group, or a group of another player.
NotQueueable(gid) ==
    gid \notin DOMAIN unit_groups \/ unit_groups[gid].owner # active_player

\* From every state between calls, queue_move for such a group id answers
\* with a failure and a message and returns the queue as it was.
QueueMoveRejects ==
    pc = "idle" =>
        \A gid \in GroupIds, dest \in DestHexes :
            NotQueueable(gid) =>
                LET r == queue_move(pending_orders, unit_groups, active_player,
                                    gid, dest)
                IN /\ ~r.ok
                   /\ r.msg = IF gid \notin DOMAIN unit_groups THEN "No such group."
                              ELSE "You don't control that group."
                   /\ QueueOf(r.pending_orders, active_player)
                         = QueueOf(pending_orders, active_player)

\* A call that queues an order queues one for a group that exists and
\* belongs to the active player; a call that fails leaves the queue.
QueueMoveStep ==
    QueueOpReturned =>
        LET q == QueueOf(pending_orders, active_player)
            q2 == QueueOf(pending_orders', active_player)
        IN /\ events'[1][3] = "Queued" =>
                 /\ q2[Len(q2)].group_id \in DOMAIN unit_groups
                 /\ unit_groups[q2[Len(q2)].group_id].owner = active_player
           /\ events'[1][3] \in {"No such group.", "You don't control that group."} =>
                 ~events'[1][2] /\ q2 = q

\* C17: queue_move rejects an order for a group id that does not exist or
\* is not owned by the active player: it returns a failure with a message
\* and leaves the pending order list unchanged, so every order in a queue
\* named, when it was queued, an existing group of that player.
C17_QueueMoveValidates ==
    /\ []QueueMoveRejects
    /\ [][QueueMoveStep]_vars

\* queue_move has just refused a group of the other player, the queue
\* holding an earlier order.
C17_Witness ==
    /\ events = Ret(FALSE, "You don't control that group.")
    /\ QueueOf(pending_orders, active_player) # <<>>

\* ------------------------------------------------------------------
\* Submission and the queue (C18), over Spec
\* ------------------------------------------------------------------
\* While the order loop runs, the orders applied so far are the first
\* order_idx - 1 orders of the queue, each once and in queue order.
AppliedInOrder ==
    pc = "movement" =>
        /\ order_idx = Len(hist.moves) + 1
        /\ Len(hist.moves) <= Len(Orders)
        /\ \A i \in 1..Len(hist.moves) :
              /\ hist.moves[i].gid = Orders[i].group_id
              /\ hist.moves[i].dest = Orders[i].dest

\* From the end of the movement phase to the return the queue is empty.
ClearedAfterMovement ==
    pc \in {"combat", "round", "volley", "rotate"} =>
        QueueOf(pending_orders, hist.ap) = <<>>

\* On return every order of the queue was applied once and none is left.
ClearedOnReturn ==
    Submitted =>
        /\ events[1][3] > 0
        /\ Len(hist.moves) = events[1][3]
        /\ QueueOf(pending_orders, hist.ap) = <<>>

\* C18: after submit_orders returns from a submission with a non-empty
\* queue, the submitting player's pending order list is empty whether
\* each order succeeded, halted or failed, every order having been applied
\* once, so that no order is applied again by a later submission.
C18_QueueClearedOnSubmit ==
    AppliedInOrder /\ ClearedAfterMovement /\ ClearedOnReturn

\* A submission of one failed and one halted order has returned.
C18_Witness ==
    /\ Submitted
    /\ \E m \in MoveRecords : ~m.ok
    /\ \E m \in MoveRecords : m.msg = "halted"

\* A submission of one completed move has returned.
C18_MovedWitness ==
    /\ Submitted
    /\ Len(hist.moves) = 1
    /\ hist.moves[1].msg = "Moved"

\* ------------------------------------------------------------------
\* Illegal orders at submit time (C19), over SpecTurns
\* ------------------------------------------------------------------
\* Why the order (gid, dest) is illegal in registry ug for player ap, or
\* "legal".  The maps of these scenarios have no blocked hex, so a
\* destination is reachable exactly when it is on the map, and the
\* shortest path has hex_distance steps.
IllegalReason(ug, gm, ap, gid, dest) ==
    IF gid \notin DOMAIN ug THEN "No such group."
    ELSE IF ug[gid].owner # ap THEN "You don't control that group."
    ELSE IF ug[gid].location = dest THEN "legal"
    ELSE IF ~in_bounds(gm, dest) \/ ~in_bounds(gm, ug[gid].location)
    THEN "No path"
    ELSE IF hex_distance(ug[gid].location, dest) > UnitTypes[ug[gid].unit_type].movement
    THEN "Out of range via path"
    ELSE "legal"

\* Applied to an illegal order in any registry the order loop meets,
\* apply_move_movement_phase returns a failure naming the reason, marks no
\* combat site and leaves every group as it was.
IllegalMoveFails ==
    (pc = "movement" /\ game_map.blocked = {}) =>
        \A gid \in GroupIds, dest \in DestHexes :
            LET why == IllegalReason(unit_groups, game_map, active_player, gid, dest)
                r == apply_move_movement_phase(unit_groups, game_map,
                                               active_player, gid, dest)
            IN why # "legal" =>
                  /\ ~r.ok
                  /\ r.msg = why
                  /\ r.ug = unit_groups
                  /\ r.sites = {}
                  /\ r.notes = <<>>

\* The step of the order loop on an illegal order: the registry and the
\* combat sites stay, the ORDER line with the message joins the events,
\* and the loop goes on to the next order.
IllegalOrderStep ==
    (pc = "movement" /\ order_idx <= Len(Orders) /\ order_idx' = order_idx + 1) =>
        LET order == Orders[order_idx]
            why == IllegalReason(unit_groups, game_map, active_player,
                                 order.group_id, order.dest)
        IN why # "legal" =>
              /\ unit_groups' = unit_groups
              /\ combat_sites' = combat_sites
              /\ events' = Append(events, <<"ORDER", order_idx, order.group_id,
                                            order.dest, why>>)
              /\ pc' = "movement"
              /\ pending_orders' = pending_orders

\* The ORDER lines of the events in progress or returned.
OrderLines == SelectSeq(events, LAMBDA e : e[1] = "ORDER")

\* On return every order of the queue was applied, each on the registry
\* its predecessor left, a failed one leaving it as it found it, and the
\* events hold one ORDER line per order, in queue order.
AllOrdersApplied ==
    Submitted =>
        /\ Len(hist.moves) = events[1][3]
        /\ Len(OrderLines) = events[1][3]
        /\ \A i \in 1..Len(hist.moves) :
              /\ hist.moves[i].before =
                    (IF i = 1 THEN hist.ug0 ELSE hist.moves[i - 1].after)
              /\ ~hist.moves[i].ok => hist.moves[i].after = hist.moves[i].before
              /\ OrderLines[i] = <<"ORDER", i, hist.moves[i].gid,
                                   hist.moves[i].dest, hist.moves[i].msg>>

\* C19: a Move order that is illegal at submit time (unknown group, group
\* of another player, no path to the destination, path longer than the
\* movement allowance) fails locally: nothing is raised, the group stays
\* where it was, the movement-phase events hold a message naming the
\* reason, and the other orders of the submission are applied in queue
\* order.
C19_IllegalOrderFailsLocally ==
    /\ [](IllegalMoveFails /\ AllOrdersApplied /\ AppliedInOrder)
    /\ [][IllegalOrderStep]_vars

\* A submission has returned whose first order failed and whose second
\* order moved its group.
C19_Witness ==
    /\ Submitted
    /\ Len(hist.moves) = 2
    /\ ~hist.moves[1].ok
    /\ hist.moves[1].msg \in {"No path", "Out of range via path"}
    /\ hist.moves[2].msg = "Moved"
    /\ hist.moves[2].after # hist.moves[2].before

\* An order for a group destroyed since it was queued has failed.
StaleOrderFailed ==
    /\ Submitted
    /\ \E m \in MoveRecords : m.msg = "No such group."

\* An order beyond the group's allowance has failed.
OutOfRangeFailed ==
    /\ Submitted
    /\ \E m \in MoveRecords : m.msg = "Out of range via path"

\* An order to a hex outside the map has failed.
NoPathFailed ==
    /\ Submitted
    /\ \E m \in MoveRecords : m.msg = "No path"

\* ------------------------------------------------------------------
\* A move that arrives (C20), over SpecArrive: A's battleship and scout at
\* home on a map of which only A's home is explored, B's picket either on
\* the way east or off it.
\* ------------------------------------------------------------------
ArriveMap ==
    [q_min |-> 0, q_max |-> MapQMax, r_min |-> 0, r_max |-> MapRMax,
     blocked |-> {}, explored |-> {A_HOME},
     hex_contents |-> (A_HOME :> "HOMEWORLD")
                      @@ (<<1, 1>> :> "MINERALS")
                      @@ (<<2, 1>> :> "SUPERNOVA")]

ArriveGroups(b1) ==
    ("A1" :> UnitGroup("A", "Battleship", 1, A_HOME))
    @@ ("A2" :> UnitGroup("A", "Scout", 1, A_HOME))
    @@ ("B1" :> UnitGroup("B", "Picket", 1, b1))

InitArrive ==
    /\ active_player = Players[1]
    /\ turn_number = 1
    /\ unit_groups \in {ArriveGroups(<<1, 0>>), ArriveGroups(<<1, 1>>)}
    /\ colonies = (A_HOME :> Colony("A", 3, TRUE))
    /\ game_map = ArriveMap
    /\ revealed_to = EmptyDict
    /\ marker_for_viewer = EmptyDict
    /\ group_for_viewer_marker = EmptyDict
    /\ next_marker_index = EmptyDict
    /\ pending_orders = EmptyDict
    /\ events = <<>>
    /\ pc = "idle"
    /\ order_idx = 1
    /\ combat_sites = {}
    /\ battles = <<>>
    /\ round_num = 0
    /\ volley_num = 0
    /\ roster = {}
    /\ queued = 0
    /\ hist = NoHist
    /\ twin = NoTwin

SpecArrive == InitArrive /\ [][Next]_vars

\* The i-th order of the submission asks for a move to a hex on the map,
\* within the group's allowance, where no group stands.
PlainMove(i) ==
    LET m == hist.moves[i] IN
    /\ IllegalReason(m.before, hist.gm0, hist.ap, m.gid, m.dest) = "legal"
    /\ m.before[m.gid].location # m.dest
    /\ \A g \in DOMAIN m.before : m.before[g].location # m.dest

\* No group of another player stands on the way.
FreeWay(i) ==
    LET m == hist.moves[i] IN
    \A k \in 1..Len(m.path) : \A g \in DOMAIN m.before :
        m.before[g].location = m.path[k] => m.before[g].owner = hist.ap

\* No later order of the submission names the same group.
LastOrderOfGroup(i) ==
    \A j \in (i + 1)..Len(hist.moves) : hist.moves[j].gid # hist.moves[i].gid

\* Exploring the destination neither drives off nor destroys the group,
\* and the group is not a colony ship arriving at a planet.
QuietDestination(i) ==
    LET m == hist.moves[i]
        content == get_hex_content(hist.gm0, m.dest)
    IN /\ is_explored(hist.gm0, m.dest) \/ content \notin {"SUPERNOVA", "HORROR"}
       /\ ~(/\ UnitTypes[m.before[m.gid].unit_type].can_colonize
            /\ content \in {"PLANET_STANDARD", "PLANET_BARREN"})

\* The group of the i-th order stands on the order's destination, and the
\* destination is explored.
Arrived(i) ==
    LET m == hist.moves[i] IN
    /\ m.gid \in DOMAIN unit_groups
    /\ unit_groups[m.gid].location = m.dest
    /\ is_explored(game_map, m.dest)

C20_WithoutFreeWay ==
    Submitted =>
        \A i \in 1..Len(hist.moves) :
            (PlainMove(i) /\ LastOrderOfGroup(i) /\ QuietDestination(i)) => Arrived(i)

\* The amended statement for a group ordered twice: refuted by the first
\* of two orders for one group.
C20_WithoutLastOrder ==
    Submitted =>
        \A i \in 1..Len(hist.moves) :
            (PlainMove(i) /\ FreeWay(i) /\ QuietDestination(i)) => Arrived(i)

\* ------------------------------------------------------------------
\* What a submission explores (C21), over Spec
\* ------------------------------------------------------------------
\* ended_hexes of submit_orders: the final hexes of the orders that
\* succeeded.
EndedHexes ==
    {hist.moves[i].after[hist.moves[i].gid].location :
        i \in {j \in 1..Len(hist.moves) : hist.moves[j].ok}}

\* The hexes the submission marked explored.
ExploredNow == game_map.explored \ hist.gm0.explored

\* Every hex the submission marked explored held a group at the end of
\* the movement phase, moved or not.
ExploresOccupiedHexes ==
    Submitted =>
        \A h \in ExploredNow :
            \E g \in DOMAIN hist.ug_moved : hist.ug_moved[g].location = h

\* A group that no order named stands on a hex the submission explored.
StationaryHexExplored ==
    /\ Submitted
    /\ \E g \in DOMAIN unit_groups :
          /\ \A i \in 1..Len(hist.moves) : hist.moves[i].gid # g
          /\ unit_groups[g].location \in ExploredNow \ EndedHexes

\* C21: a submission explores only hexes on which a group ended a
\* successful move in that submission; a hex that merely holds a group
\* that did not move is not marked explored.
C21_ExploresOnlyEndedHexes == Submitted => ExploredNow \subseteq EndedHexes

\* ------------------------------------------------------------------
\* The supernova (C24), over Spec
\* ------------------------------------------------------------------
\* The groups standing on an unexplored supernova hex.
OnSupernova(ug, gm) ==
    {g \in DOMAIN ug : /\ ~is_explored(gm, ug[g].location)
                       /\ get_hex_content(gm, ug[g].location) = "SUPERNOVA"}

\* The exploration phase meets a supernova: the call goes on to the
\* rotation, the hex is blocked and the explorer has left it.
SupernovaStep ==
    (ExplorationReady /\ OnSupernova(unit_groups, game_map) # {}) =>
        \A g \in OnSupernova(unit_groups, game_map) :
            /\ pc' = "rotate"
            /\ is_blocked(game_map', unit_groups[g].location)
            /\ g \in DOMAIN unit_groups'
            /\ unit_groups'[g].location # unit_groups[g].location

\* A blocked hex stays blocked.
BlockedForGood == game_map.blocked \subseteq game_map'.blocked

\* C24: when a group explores an unexplored supernova hex, the explorer is
\* set back to the hex it came from, the hex becomes blocked and stays
\* blocked in every later state, and the submission completes.
C24_SupernovaRetreat == [][SupernovaStep /\ BlockedForGood]_vars

\* What the code does instead: the call is left by an exception, the
\* explorer still on the supernova hex, nothing blocked, nothing
\* explored there, the queue cleared and the turn not passed on.
SupernovaRaises ==
    (ExplorationReady /\ OnSupernova(unit_groups, game_map) # {}) =>
        /\ events' = << <<"raised", "AttributeError">> >>
        /\ pc' = "idle"
        /\ game_map'.blocked = game_map.blocked
        /\ active_player' = active_player
        /\ \A g \in OnSupernova(unit_groups, game_map) :
              g \in DOMAIN unit_groups' =>
                 /\ unit_groups'[g].location = unit_groups[g].location
                 /\ ~is_explored(game_map', unit_groups[g].location)

SupernovaAlwaysRaises == [][SupernovaRaises]_vars

\* A submission that moved a group onto the supernova has raised.
SupernovaRaised ==
    /\ events = << <<"raised", "AttributeError">> >>
    /\ OnSupernova(unit_groups, game_map) # {}

\* ------------------------------------------------------------------
\* Colonising and mining (C22, C23), over SpecActions: the order
\* pipeline with manual_colonize and manual_mine, on a map with planets
\* and mineral fields around A's home.
\* ------------------------------------------------------------------
\* manual_colonize(group_id)
manual_colonize(ug, gm, cols, ap, gid) ==
    LET x == [ug |-> ug, gm |-> gm, colonies |-> cols] IN
    IF gid \notin DOMAIN ug THEN [x |-> x, msg |-> "No such group."]
    ELSE IF ug[gid].owner # ap THEN [x |-> x, msg |-> "You don't control that group."]
    ELSE IF ~is_explored(gm, ug[gid].location)
    THEN [x |-> x, msg |-> "Cannot colonize an unexplored hex."]
    ELSE LET y == try_colonize(x, gid, ug[gid].location,
                               get_hex_content(gm, ug[gid].location))
         IN [x |-> y, msg |-> IF y = x THEN "No colonization possible here."
                              ELSE "colonized"]

\* manual_mine(group_id)
manual_mine(ug, gm, cols, ap, gid) ==
    LET x == [ug |-> ug, gm |-> gm, colonies |-> cols] IN
    IF gid \notin DOMAIN ug THEN [x |-> x, msg |-> "No such group."]
    ELSE IF ug[gid].owner # ap THEN [x |-> x, msg |-> "You don't control that group."]
    ELSE IF ~is_explored(gm, ug[gid].location)
    THEN [x |-> x, msg |-> "Cannot mine an unexplored hex."]
    ELSE LET y == try_pickup_minerals(x, gid, ug[gid].location,
                                      get_hex_content(gm, ug[gid].location))
         IN [x |-> y, msg |-> IF y = x THEN "No mining possible here."
                              ELSE "picked up minerals"]

\* The groups the active player can name in a manual action.
OwnGroups(ug, ap) == {g \in DOMAIN ug : ug[g].owner = ap}

ManualColonize ==
    /\ pc = "idle"
    /\ \E gid \in OwnGroups(unit_groups, active_player) :
         LET r == manual_colonize(unit_groups, game_map, colonies, active_player, gid)
         IN /\ unit_groups' = r.x.ug
            /\ game_map' = r.x.gm
            /\ colonies' = r.x.colonies
            /\ events' = << <<"manual_colonize", gid, r.msg>> >>
    /\ hist' = NoHist
    /\ UNCHANGED <<active_player, turn_number, fogVars, pending_orders, pc,
                   callVars, queued, twin>>

ManualMine ==
    /\ pc = "idle"
    /\ \E gid \in OwnGroups(unit_groups, active_player) :
         LET r == manual_mine(unit_groups, game_map, colonies, active_player, gid)
         IN /\ unit_groups' = r.x.ug
            /\ game_map' = r.x.gm
            /\ colonies' = r.x.colonies
            /\ events' = << <<"manual_mine", gid, r.msg>> >>
    /\ hist' = NoHist
    /\ UNCHANGED <<active_player, turn_number, fogVars, pending_orders, pc,
                   callVars, queued, twin>>

\* Standard planets east (explored) and south (unexplored) of A's home, a
\* barren planet at (2,0), an explored mineral field at (1,1).
ActionsMap ==
    [q_min |-> 0, q_max |-> MapQMax, r_min |-> 0, r_max |-> MapRMax,
     blocked |-> {}, explored |-> {A_HOME, <<1, 0>>, <<1, 1>>},
     hex_contents |-> (A_HOME :> "HOMEWORLD")
                      @@ (<<1, 0>> :> "PLANET_STANDARD")
                      @@ (<<0, 1>> :> "PLANET_STANDARD")
                      @@ (<<2, 0>> :> "PLANET_BARREN")
                      @@ (<<1, 1>> :> "MINERALS")]

\* A's colony ships (n of them, at hex h) and scout at home, A's mining
\* ships (m of them, carrying c loads) on the mineral field, B's colony
\* ship on the unexplored planet, B's scout on the barren planet.
ActionsGroups(n, h, m, c) ==
    ("A1" :> UnitGroup("A", "ColonyShip", n, h))
    @@ ("A2" :> [UnitGroup("A", "MiningShip", m, <<1, 1>>) EXCEPT !.cargo_minerals = c])
    @@ ("A3" :> UnitGroup("A", "Scout", 1, A_HOME))
    @@ ("B1" :> UnitGroup("B", "ColonyShip", 1, <<0, 1>>))
    @@ ("B2" :> UnitGroup("B", "Scout", 1, <<2, 0>>))

ActionsScenarios ==
    {ActionsGroups(1, A_HOME, 1, 0), ActionsGroups(2, <<1, 0>>, 2, 1),
     ActionsGroups(2, A_HOME, 1, 1), ActionsGroups(1, <<1, 0>>, 1, 1)}

\* Either player is to act: A at the start of the turn, or B after A
\* ended its turn without orders.
InitActions ==
    /\ active_player \in PlayerSet
    /\ turn_number = 1
    /\ unit_groups \in ActionsScenarios
    /\ colonies = (A_HOME :> Colony("A", 3, TRUE))
    /\ game_map = ActionsMap
    /\ revealed_to = EmptyDict
    /\ marker_for_viewer = EmptyDict
    /\ group_for_viewer_marker = EmptyDict
    /\ next_marker_index = EmptyDict
    /\ pending_orders = EmptyDict
    /\ events = <<>>
    /\ pc = "idle"
    /\ order_idx = 1
    /\ combat_sites = {}
    /\ battles = <<>>
    /\ round_num = 0
    /\ volley_num = 0
    /\ roster = {}
    /\ queued = 0
    /\ hist = NoHist
    /\ twin = NoTwin

NextActions ==
    \/ QueueMove
    \/ UndoLastOrder
    \/ ClearOrders
    \/ SubmitOrders
    \/ MoveStep
    \/ MovementEnd
    \/ CombatBegin
    \/ RoundBegin
    \/ VolleyFire
    \/ RoundEnd
    \/ ExplorationPhase
    \/ EndTurn
    \/ ManualColonize
    \/ ManualMine

SpecActions == InitActions /\ [][NextActions]_vars

\* ------------------------------------------------------------------
\* Colonisation (C22)
\* ------------------------------------------------------------------
\* Group g of registry ug can found a colony where it stands: it is
\* colonize-capable and stands on an explored planet without a colony
\* that its owner can settle (no player has terraforming, so a standard
\* planet).
CanSettle(ug, gm, cols, g) ==
    /\ UnitTypes[ug[g].unit_type].can_colonize
    /\ get_hex_content(gm, ug[g].location) = "PLANET_STANDARD"
    /\ is_explored(gm, ug[g].location)
    /\ ug[g].location \notin DOMAIN cols

\* The registry ug with one ship taken from group g.
OneShipLess(ug, g) ==
    IF ug[g].count = 1 THEN [x \in DOMAIN ug \ {g} |-> ug[x]]
    ELSE [ug EXCEPT ![g].count = @ - 1]

\* A new colony of owner o: level 0, no homeworld.
NewColony(o) == [owner |-> o, level |-> 0, homeworld |-> FALSE, minerals_delivered |-> 0]

\* Colony c is a level-0 colony of owner o and no homeworld (minerals may
\* have been delivered to it since).
IsNewColony(c, o) == c.owner = o /\ c.level = 0 /\ ~c.homeworld

\* manual_colonize for a group of the active player.
ManualColonizeStep ==
    (events' # <<>> /\ events'[1][1] = "manual_colonize") =>
        LET g == events'[1][2]
            h == unit_groups[g].location
        IN IF CanSettle(unit_groups, game_map, colonies, g)
           THEN /\ DOMAIN colonies' = DOMAIN colonies \cup {h}
                /\ colonies'[h] = NewColony(unit_groups[g].owner)
                /\ \A k \in DOMAIN colonies : colonies'[k] = colonies[k]
                /\ unit_groups' = OneShipLess(unit_groups, g)
                /\ game_map' = game_map
           ELSE UNCHANGED <<unit_groups, colonies, game_map>>

\* The exploration phase of a submission that returns.
AutoStep == ExplorationReady /\ pc' = "rotate"

\* The hexes that got a colony in this step.
Settled == DOMAIN colonies' \ DOMAIN colonies

\* The groups that lost a ship or left the registry in this step.
Spent == {g \in DOMAIN unit_groups :
             g \notin DOMAIN unit_groups' \/ unit_groups'[g].count # unit_groups[g].count}

\* Automatic colonisation at the end of the turn: each new colony stands
\* on a standard planet and cost exactly one ship of one colonize-capable
\* group of its owner standing there; no other group lost a ship; and a
\* capable group on a free standard planet does not stay without a colony.
AutoColonizeStep ==
    AutoStep =>
        /\ \A h \in Settled :
              /\ get_hex_content(game_map, h) = "PLANET_STANDARD"
              /\ is_explored(game_map', h)
              /\ \E g \in Spent :
                    /\ unit_groups[g].location = h
                    /\ UnitTypes[unit_groups[g].unit_type].can_colonize
                    /\ IsNewColony(colonies'[h], unit_groups[g].owner)
                    /\ unit_groups[g].count = 1 => g \notin DOMAIN unit_groups'
                    /\ unit_groups[g].count > 1 =>
                          /\ g \in DOMAIN unit_groups'
                          /\ unit_groups'[g].count = unit_groups[g].count - 1
                    /\ \A g2 \in Spent : unit_groups[g2].location = h => g2 = g
        /\ \A g \in Spent : unit_groups[g].location \in Settled
        /\ \A g \in DOMAIN unit_groups :
              (/\ UnitTypes[unit_groups[g].unit_type].can_colonize
               /\ get_hex_content(game_map, unit_groups[g].location) = "PLANET_STANDARD")
                 => unit_groups[g].location \in DOMAIN colonies'

\* A colony, once founded, keeps its owner, level and homeworld flag.
ColonyKept ==
    \A h \in DOMAIN colonies :
        /\ h \in DOMAIN colonies'
        /\ colonies'[h].owner = colonies[h].owner
        /\ colonies'[h].level = colonies[h].level
        /\ colonies'[h].homeworld = colonies[h].homeworld

\* C22: colonisation, automatic at the end of the turn or by
\* manual_colonize, by a colonize-capable group on an explored,
\* colonisable planet hex without a colony creates a level-0 non-homeworld
\* colony of the group's owner, consumes exactly one ship and removes the
\* group if that was its last; on a hex with a colony, on a non-planet
\* hex or (manually) on an unexplored hex it changes nothing, so that an
\* existing colony is never overwritten.
C22_Colonization == [][ManualColonizeStep /\ AutoColonizeStep /\ ColonyKept]_vars

\* manual_colonize has just founded a colony with the last ship of its
\* group.
C22_Witness ==
    /\ events # <<>>
    /\ events[1][1] = "manual_colonize"
    /\ events[1][3] = "colonized"
    /\ events[1][2] \notin DOMAIN unit_groups
    /\ <<1, 0>> \in DOMAIN colonies
    /\ colonies[<<1, 0>>] = NewColony("A")

\* A submission has returned after which B's colony ship is gone and B
\* holds a colony on the planet it stood on.
AutoColonized ==
    /\ Submitted
    /\ "B1" \notin DOMAIN unit_groups
    /\ <<0, 1>> \in DOMAIN colonies
    /\ colonies[<<0, 1>>].owner = "B"

\* manual_colonize was refused on an unexplored planet.
UnexploredRefused ==
    /\ events = << <<"manual_colonize", "B1", "Cannot colonize an unexplored hex.">> >>
    /\ get_hex_content(game_map, unit_groups["B1"].location) = "PLANET_STANDARD"

\* manual_colonize found a colony on the planet and left it and the
\* remaining ship alone.
ColonyNotOverwritten ==
    /\ events = << <<"manual_colonize", "A1", "No colonization possible here.">> >>
    /\ unit_groups["A1"].location \in DOMAIN colonies
    /\ get_hex_content(game_map, unit_groups["A1"].location) = "PLANET_STANDARD"
    /\ unit_groups["A1"].count = 1

\* ------------------------------------------------------------------
\* Mining (C23)
\* ------------------------------------------------------------------
\* Group g of registry ug can take a load where it stands: it is
\* mine-capable, stands on an explored minerals hex and carries fewer
\* loads than it has ships.
CanLoad(ug, gm, g) ==
    /\ UnitTypes[ug[g].unit_type].can_mine
    /\ get_hex_content(gm, ug[g].location) = "MINERALS"
    /\ is_explored(gm, ug[g].location)
    /\ ug[g].cargo_minerals < ug[g].count

\* manual_mine for a group of the active player.
ManualMineStep ==
    (events' # <<>> /\ events'[1][1] = "manual_mine") =>
        LET g == events'[1][2]
            h == unit_groups[g].location
        IN IF CanLoad(unit_groups, game_map, g)
           THEN /\ unit_groups' = [unit_groups EXCEPT ![g].cargo_minerals = @ + 1]
                /\ get_hex_content(game_map', h) = "CLEAR"
                /\ \A k \in MapHexes \ {h} :
                      get_hex_content(game_map', k) = get_hex_content(game_map, k)
                /\ game_map'.explored = game_map.explored
                /\ colonies' = colonies
           ELSE UNCHANGED <<unit_groups, colonies, game_map>>

\* The groups whose cargo grew in this step.
TookLoad ==
    {g \in DOMAIN unit_groups \cap DOMAIN unit_groups' :
        unit_groups'[g].cargo_minerals > unit_groups[g].cargo_minerals}

\* Automatic mining at the end of the turn: a group whose cargo grew is a
\* mining group below its capacity on a minerals hex, took one load and
\* left the hex clear; a hex changes its content only that way; and a
\* minerals hex on which no group below its capacity stands keeps its
\* minerals.
AutoMineStep ==
    AutoStep =>
        /\ \A g \in TookLoad :
              /\ UnitTypes[unit_groups[g].unit_type].can_mine
              /\ get_hex_content(game_map, unit_groups[g].location) = "MINERALS"
              /\ get_hex_content(game_map', unit_groups[g].location) = "CLEAR"
              /\ unit_groups[g].cargo_minerals < unit_groups[g].count
              /\ \A g2 \in TookLoad : unit_groups[g2].location = unit_groups[g].location
                                       => g2 = g
        /\ \A h \in MapHexes :
              get_hex_content(game_map', h) # get_hex_content(game_map, h)
                 => \E g \in TookLoad : unit_groups[g].location = h
        /\ \A h \in MapHexes :
              (/\ get_hex_content(game_map, h) = "MINERALS"
               /\ \A g \in DOMAIN unit_groups :
                     unit_groups[g].location = h =>
                        ~(/\ UnitTypes[unit_groups[g].unit_type].can_mine
                          /\ unit_groups[g].cargo_minerals < unit_groups[g].count))
                 => get_hex_content(game_map', h) = "MINERALS"

\* In any step a cargo grows by one load at most and not beyond the ship
\* count.
OneLoadPerShip ==
    \A g \in TookLoad :
        /\ unit_groups'[g].cargo_minerals = unit_groups[g].cargo_minerals + 1
        /\ unit_groups'[g].cargo_minerals <= unit_groups[g].count

\* C23: mining by a mine-capable group on a minerals hex adds exactly one
\* cargo load and turns the hex to clear, but only while the group's cargo
\* is below its ship count; a group whose cargo equals its ship count
\* picks up nothing and the hex keeps its minerals, so mining never raises
\* a cargo above one load per ship.
C23_Mining == [][ManualMineStep /\ AutoMineStep /\ OneLoadPerShip]_vars

\* manual_mine has just given the second load to a group of two ships.
C23_Witness ==
    /\ events = << <<"manual_mine", "A2", "picked up minerals">> >>
    /\ unit_groups["A2"].count = 2
    /\ unit_groups["A2"].cargo_minerals = 2
    /\ get_hex_content(game_map, unit_groups["A2"].location) = "CLEAR"

\* manual_mine left a full group and the minerals under it alone.
FullGroupRefused ==
    /\ events = << <<"manual_mine", "A2", "No mining possible here.">> >>
    /\ unit_groups["A2"].cargo_minerals = unit_groups["A2"].count
    /\ get_hex_content(game_map, unit_groups["A2"].location) = "MINERALS"

\* A submission has returned in which a mining group took a load at the
\* end of the turn.
AutoMined ==
    /\ Submitted
    /\ "A2" \in DOMAIN unit_groups
    /\ unit_groups["A2"].location = <<1, 1>>
    /\ get_hex_content(game_map, <<1, 1>>) = "CLEAR"
    /\ unit_groups["A2"].cargo_minerals = unit_groups["A2"].count

\* ------------------------------------------------------------------
\* Revealed groups and markers (C30), over SpecFog
\* ------------------------------------------------------------------
\* No group revealed to a viewer has an entry in either marker table of
\* that viewer.
NoMarkerForRevealed ==
    \A v \in PlayerSet : \A g \in RevealedTo(v) :
        /\ g \notin DOMAIN MarkersOf(v)
        /\ \A n \in DOMAIN GroupsByMarkerOf(v) : GroupsByMarkerOf(v)[n] # g

\* C30: in every state reachable by get_marker_id, reveal_group_to and
\* reveal_hex_to_players, no group revealed to a viewer has a live marker
\* mapping for that viewer.
C30_RevealedHasNoMarker == NoMarkerForRevealed

\* get_marker_id has just returned a marker for a group that is revealed
\* to the viewer.
MarkerForRevealed ==
    /\ events # <<>>
    /\ events[1][1] = "marker"
    /\ \E v \in PlayerSet : \E g \in RevealedTo(v) :
          /\ g \in DOMAIN MarkersOf(v)
          /\ MarkersOf(v)[g] = events[1][2]

\* The step is a call of get_marker_id for a group revealed to the viewer,
\* the call the user interfaces never make (they ask is_revealed first).
UnguardedCall ==
    /\ MarkerReturned
    /\ \E t \in hist'.handed \ hist.handed : t[3] \in RevealedTo(t[1])

\* Every other step keeps revealed groups without markers.
GuardedStep == (NoMarkerForRevealed /\ ~UnguardedCall) => NoMarkerForRevealed'

GuardedCallsKeepRevealedUnmarked == [][GuardedStep]_vars

\* ==================================================================
\* tactical/ : the tactical sub-game
\* ==================================================================
\* Bounds of the tactical scenarios.
MaxMP == 3
MaxTurnCost == 2
MaxSteps == 2

\* The outcome of a call: a value, or the exception raised instead.
Returned(v) == [err |-> "", v |-> v]
Raised(e) == [err |-> e]

\* tactical/facing.py
FACING_OFFSETS == << <<0, 1>>, <<1, 0>>, <<1, -1>>, <<0, -1>>, <<-1, 0>>, <<-1, 1>> >>

FacingSet == 0..5

facing_left(f, steps) == (f - (steps % 6)) % 6

facing_right(f, steps) == (f + (steps % 6)) % 6

\* tactical/movement.py
forward_neighbor(pos, facing) == <<pos[1] + FACING_OFFSETS[facing + 1][1], pos[2] + FACING_OFFSETS[facing + 1][2]>>

RECURSIVE step_forward(_, _, _)
step_forward(pos, facing, steps) == IF steps = 0 THEN pos ELSE step_forward(forward_neighbor(pos, facing), facing, steps - 1)

\* compute_move_forward: occupied is OccupiedSet(S) for a set S of hexes,
\* or NoOccupied for the default None.
NoOccupied == [none |-> TRUE, hexes |-> {}]

OccupiedSet(S) == [none |-> FALSE, hexes |-> S]

compute_move_forward(start, facing, mp, steps, occupied) ==
    IF steps < 0 THEN Raised("ValueError")
    ELSE IF mp < steps THEN Raised("ValueError")
    ELSE LET end == IF steps = 0 THEN start ELSE step_forward(start, facing, steps)
         IN IF ~occupied.none /\ end \in occupied.hexes
            THEN Raised("ValueError")
            ELSE Returned([pos |-> end, mp |-> mp - steps])

\* tactical/ship_state.py : ShipState is a record with the fields
\* ship_id, owner_id, pos, facing, mp, turn_cost, turn_charge, systems.
clamped_charge_unbounded(s, charge) == IF s.turn_cost <= 0 THEN Raised("ValueError") ELSE Returned(IF charge < 0 THEN 0 ELSE charge)

clamped_charge(s, charge) ==
    IF s.turn_cost <= 0 THEN Raised("ValueError")
    ELSE IF charge < 0 THEN Returned(0)
    ELSE IF charge > s.turn_cost THEN Returned(s.turn_cost)
    ELSE Returned(charge)

can_turn(s) == s.turn_charge >= s.turn_cost

spend_mp(s, amount) ==
    IF amount < 0 THEN Raised("ValueError")
    ELSE IF amount > s.mp THEN Raised("ValueError")
    ELSE LET new_charge == clamped_charge(s, s.turn_charge + amount)
         IN IF new_charge.err # "" THEN new_charge
            ELSE Returned([s EXCEPT !.mp = s.mp - amount, !.turn_charge = new_charge.v])

move_forward(s, steps, occupied) ==
    LET m == compute_move_forward(s.pos, s.facing, s.mp, steps, occupied)
    IN IF m.err # "" THEN m
       ELSE LET new_charge == clamped_charge(s, s.turn_charge + steps)
            IN IF new_charge.err # "" THEN new_charge
               ELSE Returned([s EXCEPT !.pos = m.v.pos, !.mp = m.v.mp, !.turn_charge = new_charge.v])

turn_left(s) ==
    IF ~can_turn(s) THEN Raised("ValueError")
    ELSE Returned([s EXCEPT !.facing = facing_left(s.facing, 1), !.turn_charge = 0])

turn_right(s) ==
    IF ~can_turn(s) THEN Raised("ValueError")
    ELSE Returned([s EXCEPT !.facing = facing_right(s.facing, 1), !.turn_charge = 0])

missing_turn_charge(s) == IF s.turn_cost - s.turn_charge > 0 THEN s.turn_cost - s.turn_charge ELSE 0

turn_left_auto(s) ==
    LET missing == missing_turn_charge(s)
    IN IF missing > 0
       THEN IF s.mp < missing THEN Raised("ValueError")
            ELSE LET sp == spend_mp(s, missing)
                 IN IF sp.err # "" THEN sp ELSE turn_left(sp.v)
       ELSE turn_left(s)

turn_right_auto(s) ==
    LET missing == missing_turn_charge(s)
    IN IF missing > 0
       THEN IF s.mp < missing THEN Raised("ValueError")
            ELSE LET sp == spend_mp(s, missing)
                 IN IF sp.err # "" THEN sp ELSE turn_right(sp.v)
       ELSE turn_right(s)

\* ------------------------------------------------------------------
\* A lone ShipState and the calls made on it (SpecShip).  The strategic
\* game is absent: its variables stay empty.  twin.ship is the ship the
\* caller holds, events the outcome of the last call.
\* ------------------------------------------------------------------
tacticalRest == <<gameVars, pending_orders, pc, callVars, queued, hist>>

NoGame ==
    /\ active_player = Players[1]
    /\ turn_number = 1
    /\ unit_groups = EmptyDict
    /\ colonies = EmptyDict
    /\ game_map = [ScenarioMap EXCEPT !.explored = {}, !.hex_contents = EmptyDict]
    /\ revealed_to = EmptyDict
    /\ marker_for_viewer = EmptyDict
    /\ group_for_viewer_marker = EmptyDict
    /\ next_marker_index = EmptyDict
    /\ pending_orders = EmptyDict
    /\ pc = "idle"
    /\ order_idx = 1
    /\ combat_sites = {}
    /\ battles = <<>>
    /\ round_num = 0
    /\ volley_num = 0
    /\ roster = {}
    /\ queued = 0
    /\ hist = NoHist

\* systems: None, or the ShipSystems of the ship by its intact engines.
NoSystems == [present |-> FALSE, engines |-> 0]

Systems(n) == [present |-> TRUE, engines |-> n]

Ship(sid, owner, pos, facing, mp, cost, charge) == [ship_id |-> sid, owner_id |-> owner, pos |-> pos, facing |-> facing, mp |-> mp, turn_cost |-> cost, turn_charge |-> charge, systems |-> NoSystems]

InitShip ==
    /\ NoGame
    /\ events = <<>>
    /\ \E f \in FacingSet, mp \in 0..MaxMP, cost \in 1..MaxTurnCost :
         \E charge \in 0..cost :
            twin = [pc |-> "ship", ship |-> Ship("s1", "p1", <<0, 0>>, f, mp, cost, charge)]

\* What the caller holds after a call: the new ship, or the old one
\* when the call raised.
Held(r) == IF r.err = "" THEN [twin EXCEPT !.ship = r.v] ELSE twin

ShipSpendMP ==
    /\ twin.pc = "ship"
    /\ \E amount \in -1..MaxMP :
          LET r == spend_mp(twin.ship, amount)
          IN /\ twin' = Held(r)
             /\ events' = << <<"spend_mp", amount, r.err>> >>
    /\ UNCHANGED tacticalRest

ShipMoveForward ==
    /\ twin.pc = "ship"
    /\ \E steps \in -1..MaxSteps, blocked \in BOOLEAN :
          LET occupied == IF blocked THEN OccupiedSet({forward_neighbor(twin.ship.pos, twin.ship.facing)}) ELSE NoOccupied
              r == move_forward(twin.ship, steps, occupied)
          IN /\ twin' = Held(r)
             /\ events' = << <<"move_forward", steps, r.err, blocked>> >>
    /\ UNCHANGED tacticalRest

ShipTurnLeft ==
    /\ twin.pc = "ship"
    /\ LET r == turn_left(twin.ship)
       IN /\ twin' = Held(r)
          /\ events' = << <<"turn_left", 0, r.err>> >>
    /\ UNCHANGED tacticalRest

ShipTurnRight ==
    /\ twin.pc = "ship"
    /\ LET r == turn_right(twin.ship)
       IN /\ twin' = Held(r)
          /\ events' = << <<"turn_right", 0, r.err>> >>
    /\ UNCHANGED tacticalRest

ShipTurnLeftAuto ==
    /\ twin.pc = "ship"
    /\ LET r == turn_left_auto(twin.ship)
       IN /\ twin' = Held(r)
          /\ events' = << <<"turn_left_auto", 0, r.err>> >>
    /\ UNCHANGED tacticalRest

ShipTurnRightAuto ==
    /\ twin.pc = "ship"
    /\ LET r == turn_right_auto(twin.ship)
       IN /\ twin' = Held(r)
          /\ events' = << <<"turn_right_auto", 0, r.err>> >>
    /\ UNCHANGED tacticalRest

NextShip ==
    \/ ShipSpendMP
    \/ ShipMoveForward
    \/ ShipTurnLeft
    \/ ShipTurnRight
    \/ ShipTurnLeftAuto
    \/ ShipTurnRightAuto

SpecShip == InitShip /\ [][NextShip]_vars

\* ------------------------------------------------------------------
\* Turn-charge model (C29), over SpecShip
\* ------------------------------------------------------------------
Least(a, b) == IF a < b THEN a ELSE b

ChargeInRange(s) == 0 <= s.turn_charge /\ s.turn_charge <= s.turn_cost /\ s.mp >= 0

\* The call made by the step, and its outcome.
CallOf(e) == e[1]
ArgOf(e) == e[2]
Accepted(e) == e[3] = ""

\* Spending or moving n MP: mp falls by n, the charge rises by n up to
\* turn_cost, nothing else but the position changes.
Charged(s, t, n) == t.mp = s.mp - n /\ t.turn_charge = Least(s.turn_charge + n, s.turn_cost) /\ t.turn_cost = s.turn_cost /\ t.facing = s.facing

\* A turn: one facing step, no MP, the charge back to 0.
Turned(s, t, f) == t = [s EXCEPT !.facing = f, !.turn_charge = 0]

SpendEffect(s, t, e) ==
    /\ Accepted(e) <=> (0 <= ArgOf(e) /\ ArgOf(e) <= s.mp)
    /\ Accepted(e) => Charged(s, t, ArgOf(e)) /\ t.pos = s.pos

MoveEffect(s, t, e) ==
    /\ Accepted(e) <=> (0 <= ArgOf(e) /\ ArgOf(e) <= s.mp /\ ~(e[4] /\ ArgOf(e) = 1))
    /\ Accepted(e) => Charged(s, t, ArgOf(e)) /\ t.pos = step_forward(s.pos, s.facing, ArgOf(e))

TurnEffect(s, t, e, f) ==
    /\ Accepted(e) <=> s.turn_charge = s.turn_cost
    /\ Accepted(e) => Turned(s, t, f)

AutoTurnEffect(s, t, e, f) ==
    /\ Accepted(e) <=> s.mp >= s.turn_cost - s.turn_charge
    /\ Accepted(e) => Turned([s EXCEPT !.mp = s.mp - (s.turn_cost - s.turn_charge)], t, f)

ShipCallStep ==
    LET s == twin.ship
        t == twin'.ship
        e == events'[1]
    IN /\ ChargeInRange(t)
       /\ ~Accepted(e) => t = s
       /\ CallOf(e) = "spend_mp" => SpendEffect(s, t, e)
       /\ CallOf(e) = "move_forward" => MoveEffect(s, t, e)
       /\ CallOf(e) = "turn_left" => TurnEffect(s, t, e, (s.facing + 5) % 6)
       /\ CallOf(e) = "turn_right" => TurnEffect(s, t, e, (s.facing + 1) % 6)
       /\ CallOf(e) = "turn_left_auto" => AutoTurnEffect(s, t, e, (s.facing + 5) % 6)
       /\ CallOf(e) = "turn_right_auto" => AutoTurnEffect(s, t, e, (s.facing + 1) % 6)

\* C29: after any sequence of spend_mp, move_forward and turn calls the
\* ship has 0 <= turn_charge <= turn_cost and mp >= 0; spending or moving
\* n MP lowers mp by n and raises turn_charge by n, capped at turn_cost;
\* a turn is accepted only on a charge equal to turn_cost, costs no MP
\* and resets the charge to 0; a rejected call raises and leaves the ship
\* as it was.
C29_TurnChargeModel == [][ShipCallStep]_vars

\* A ship that moved, charged its turn on the way, and then turned.
C29_Witness == twin.pc = "ship" /\ events # <<>> /\ CallOf(events[1]) = "turn_left" /\ Accepted(events[1]) /\ twin.ship.pos # <<0, 0>> /\ twin.ship.turn_charge = 0

\* A spend larger than what the charge still lacked: the charge is capped.
ChargeCapped == twin.pc = "ship" /\ events # <<>> /\ CallOf(events[1]) = "spend_mp" /\ Accepted(events[1]) /\ ArgOf(events[1]) > twin.ship.turn_cost /\ twin.ship.turn_charge = twin.ship.turn_cost

\* A turn refused for want of charge.
TurnRefused == twin.pc = "ship" /\ events # <<>> /\ CallOf(events[1]) = "turn_right" /\ ~Accepted(events[1]) /\ twin.ship.turn_charge < twin.ship.turn_cost

\* A move through the occupied hex in front, ending beyond it.
PassedThrough == twin.pc = "ship" /\ events # <<>> /\ CallOf(events[1]) = "move_forward" /\ Accepted(events[1]) /\ events[1][4] /\ ArgOf(events[1]) = 2

\* ------------------------------------------------------------------
\* tactical/battle_state.py : BattleState is its ships dict, a function
\* from ship id to ShipState.
\* ------------------------------------------------------------------
\* Ship ids in string order.
ShipIds == <<"a", "b", "c">>

ShipIdSet == SeqToSet(ShipIds)

ShipIdRank(sid) == CHOOSE i \in 1..Len(ShipIds) : ShipIds[i] = sid

\* The sort key (q, r, ship_id) of ship_ids_sorted, compared as Python
\* compares tuples.
ShipKeyLess(ships, x, y) ==
    LET p == ships[x].pos
        q == ships[y].pos
    IN \/ p[1] < q[1]
       \/ p[1] = q[1] /\ p[2] < q[2]
       \/ p = q /\ ShipIdRank(x) < ShipIdRank(y)

RECURSIVE SortShipIds(_, _)
SortShipIds(ships, S) ==
    IF S = {} THEN <<>>
    ELSE LET first == CHOOSE x \in S : \A y \in S \ {x} : ShipKeyLess(ships, x, y)
         IN <<first>> \o SortShipIds(ships, S \ {first})

ship_ids_sorted(ships) == SortShipIds(ships, DOMAIN ships)

occupied_hexes_nobody(ships, exclude) == {}

occupied_hexes(ships, exclude) == {ships[sid].pos : sid \in (DOMAIN ships) \ exclude}

with_ship(ships, ship) == [sid \in (DOMAIN ships) \cup {ship.ship_id} |-> IF sid = ship.ship_id THEN ship ELSE ships[sid]]

move_ship_forward(ships, ship_id, steps) ==
    IF ship_id \notin DOMAIN ships THEN Raised("KeyError")
    ELSE LET occupied == OccupiedSet(occupied_hexes(ships, {ship_id}))
             moved == move_forward(ships[ship_id], steps, occupied)
         IN IF moved.err # "" THEN moved ELSE Returned(with_ship(ships, moved.v))

\* ------------------------------------------------------------------
\* A battle and the moves made in it (SpecBattle).  twin.ships is the
\* battle the caller holds, twin.ships0 the one it started from.
\* ------------------------------------------------------------------
\* a and b face each other on one line, c comes in from the side; in the
\* second placement b starts on top of a.
BattleShips(stacked) ==
    LET ships == << Ship("a", "p1", <<0, 0>>, 0, MaxMP, MaxTurnCost, 0),
                    Ship("b", "p2", IF stacked THEN <<0, 0>> ELSE <<0, 1>>, 3, MaxMP, MaxTurnCost, 0),
                    Ship("c", "p2", <<1, 0>>, 4, MaxMP, MaxTurnCost, 0) >>
    IN [sid \in ShipIdSet |-> ships[ShipIdRank(sid)]]

InitBattle ==
    /\ NoGame
    /\ events = <<>>
    /\ \E stacked \in BOOLEAN :
          twin = [pc |-> "battle", ships |-> BattleShips(stacked), ships0 |-> BattleShips(stacked)]

BattleMoveShipForward ==
    /\ twin.pc = "battle"
    /\ \E ship_id \in ShipIdSet \cup {"zz"}, steps \in -1..MaxSteps :
          LET r == move_ship_forward(twin.ships, ship_id, steps)
          IN /\ twin' = IF r.err = "" THEN [twin EXCEPT !.ships = r.v] ELSE twin
             /\ events' = << <<"move_ship_forward", ship_id, r.err, steps>> >>
    /\ UNCHANGED tacticalRest

NextBattle ==
    \/ BattleMoveShipForward

SpecBattle == InitBattle /\ [][NextBattle]_vars

\* ------------------------------------------------------------------
\* Occupancy rule (C27), over SpecBattle
\* ------------------------------------------------------------------
PairwiseDistinct(ships) == \A x, y \in DOMAIN ships : x # y => ships[x].pos # ships[y].pos

\* Another ship than sid stands on hex h.
OtherShipAt(ships, sid, h) == \E o \in (DOMAIN ships) \ {sid} : ships[o].pos = h

\* The move asked for is within the ship's means.
Affordable(ships, e) == e[2] \in DOMAIN ships /\ 0 <= e[4] /\ e[4] <= ships[e[2]].mp

Destination(ships, e) == step_forward(ships[e[2]].pos, ships[e[2]].facing, e[4])

OccupancyStep ==
    LET ships == twin.ships
        e == events'[1]
    IN /\ ~Accepted(e) => twin'.ships = ships
       /\ Affordable(ships, e) =>
             IF OtherShipAt(ships, e[2], Destination(ships, e))
             THEN e[3] = "ValueError"
             ELSE Accepted(e) /\ twin'.ships[e[2]].pos = Destination(ships, e)
       /\ PairwiseDistinct(twin.ships0) => PairwiseDistinct(twin'.ships)

\* C27: move_ship_forward lets a ship pass through occupied hexes but
\* never end its move on a hex another ship occupies (ValueError, battle
\* unchanged); from pairwise-distinct starting hexes every battle reached
\* by move_ship_forward has its ships on pairwise-distinct hexes.
C27_OccupancyRule == [][OccupancyStep]_vars

\* The ship that moved last went two hexes and left another ship on the
\* hex it crossed.
C27_Witness ==
    /\ twin.pc = "battle" /\ events # <<>> /\ Accepted(events[1]) /\ events[1][4] = 2
    /\ PairwiseDistinct(twin.ships0)
    /\ LET s == twin.ships[events[1][2]]
       IN OtherShipAt(twin.ships, s.ship_id, step_forward(s.pos, (s.facing + 3) % 6, 1))

\* A move refused because its last hex is taken.
EndOnOccupiedRefused ==
    /\ twin.pc = "battle" /\ events # <<>> /\ events[1][3] = "ValueError"
    /\ Affordable(twin.ships, events[1])
    /\ OtherShipAt(twin.ships, events[1][2], Destination(twin.ships, events[1]))

\* Ships that start stacked may stay stacked: the rule guards arrivals only.
StackedStay == twin.pc = "battle" /\ ~PairwiseDistinct(twin.ships0) /\ ~PairwiseDistinct(twin.ships) /\ events # <<>> /\ Accepted(events[1])

\* ------------------------------------------------------------------
\* tactical/activation.py : ActivationState is a record order, index,
\* round_no (index counts from 0 as in the code); a TacticalTurn is a
\* record battle, activation.
\* ------------------------------------------------------------------
MaxRound == 2

from_battle(battle) == [order |-> ship_ids_sorted(battle), index |-> 0, round_no |-> 1]

active_ship_id(act) ==
    IF act.order = <<>> THEN Raised("ValueError")
    ELSE IF act.index < 0 \/ act.index >= Len(act.order) THEN Raised("ValueError")
    ELSE Returned(act.order[act.index + 1])

advance_every_round(act) == IF act.order = <<>> THEN Raised("ValueError") ELSE Returned([act EXCEPT !.index = (act.index + 1) % Len(act.order), !.round_no = act.round_no + 1])

advance(act) ==
    IF act.order = <<>> THEN Raised("ValueError")
    ELSE LET next_index == act.index + 1
         IN IF next_index < Len(act.order)
            THEN Returned([act EXCEPT !.index = next_index])
            ELSE Returned([act EXCEPT !.index = 0, !.round_no = act.round_no + 1])

require_active(act, ship_id) ==
    LET a == active_ship_id(act)
    IN IF a.err # "" THEN a
       ELSE IF ship_id # a.v THEN Raised("PermissionError")
       ELSE Returned("None")

tactical_turn_start(battle) == [battle |-> battle, activation |-> from_battle(battle)]

move_active_ship_forward(turn, ship_id, steps) ==
    LET ra == require_active(turn.activation, ship_id)
    IN IF ra.err # "" THEN ra
       ELSE LET new_battle == move_ship_forward(turn.battle, ship_id, steps)
            IN IF new_battle.err # "" THEN new_battle
               ELSE Returned([turn EXCEPT !.battle = new_battle.v])

end_activation(turn, ship_id) ==
    LET ra == require_active(turn.activation, ship_id)
    IN IF ra.err # "" THEN ra
       ELSE LET adv == advance(turn.activation)
            IN IF adv.err # "" THEN adv
               ELSE Returned([turn EXCEPT !.activation = adv.v])

\* ------------------------------------------------------------------
\* A TacticalTurn and the calls made on it (SpecActivation).  twin.turn
\* is the turn the caller holds, twin.battle0 the battle it was started
\* on: any non-empty part of the three-ship battle.
\* ------------------------------------------------------------------
Restrict(f, S) == [x \in S |-> f[x]]

InitActivation ==
    /\ NoGame
    /\ events = <<>>
    /\ \E stacked \in BOOLEAN, S \in (SUBSET ShipIdSet) \ {{}} :
          LET battle == Restrict(BattleShips(stacked), S)
          IN twin = [pc |-> "turn", turn |-> tactical_turn_start(battle), battle0 |-> battle]

MoveActiveShipForward ==
    /\ twin.pc = "turn"
    /\ \E ship_id \in ShipIdSet, steps \in 0..MaxSteps :
          LET r == move_active_ship_forward(twin.turn, ship_id, steps)
          IN /\ twin' = IF r.err = "" THEN [twin EXCEPT !.turn = r.v] ELSE twin
             /\ events' = << <<"move_active_ship_forward", ship_id, r.err, steps>> >>
    /\ UNCHANGED tacticalRest

EndActivation ==
    /\ twin.pc = "turn"
    /\ twin.turn.activation.round_no <= MaxRound
    /\ \E ship_id \in ShipIdSet :
          LET r == end_activation(twin.turn, ship_id)
          IN /\ twin' = IF r.err = "" THEN [twin EXCEPT !.turn = r.v] ELSE twin
             /\ events' = << <<"end_activation", ship_id, r.err>> >>
    /\ UNCHANGED tacticalRest

NextActivation ==
    \/ MoveActiveShipForward
    \/ EndActivation

SpecActivation == InitActivation /\ [][NextActivation]_vars

\* ------------------------------------------------------------------
\* Activation order (C28), over SpecActivation
\* ------------------------------------------------------------------
\* The ships that are active: those at the current place of the order.
ActiveShips(t) == {sid \in DOMAIN t.turn.battle : \E i \in 1..Len(t.turn.activation.order) : i = t.turn.activation.index + 1 /\ t.turn.activation.order[i] = sid}

ExactlyOneActive(t) == Cardinality(ActiveShips(t)) = 1

OrderFixedAtStart(t) == t.turn.activation.order = ship_ids_sorted(t.battle0)

\* The place after index i in an order of n ships, and whether the step
\* from i wraps.
Wraps(act) == act.index = Len(act.order) - 1

ActivationStep ==
    LET act == twin.turn.activation
        e == events'[1]
        mine == e[2] \in ActiveShips(twin)
    IN /\ ExactlyOneActive(twin) /\ ExactlyOneActive(twin')
       /\ OrderFixedAtStart(twin) /\ OrderFixedAtStart(twin')
       /\ ~mine => e[3] = "PermissionError" /\ twin' = twin
       /\ (mine /\ CallOf(e) = "end_activation") =>
             /\ Accepted(e)
             /\ twin'.turn.battle = twin.turn.battle
             /\ twin'.turn.activation.index = IF Wraps(act) THEN 0 ELSE act.index + 1
             /\ twin'.turn.activation.round_no = IF Wraps(act) THEN act.round_no + 1 ELSE act.round_no
       /\ CallOf(e) = "move_active_ship_forward" =>
             /\ twin'.turn.activation = act
             /\ \A sid \in (DOMAIN twin.turn.battle) \ {e[2]} : twin'.turn.battle[sid] = twin.turn.battle[sid]

\* C28: in a TacticalTurn exactly one ship is active; a call for any
\* other ship id raises PermissionError and changes nothing;
\* end_activation moves to the next ship of the order fixed at the start
\* (sorted by q, r, ship id); round_no rises by one when the activation
\* wraps from the last ship to the first and is unchanged otherwise.
C28_ActivationOrder == [][ActivationStep]_vars

\* The last of three ships ended its activation: the first is active
\* again, in round 2.
C28_Witness ==
    /\ twin.pc = "turn" /\ events # <<>> /\ CallOf(events[1]) = "end_activation" /\ Accepted(events[1])
    /\ Len(twin.turn.activation.order) = 3
    /\ twin.turn.activation.index = 0 /\ twin.turn.activation.round_no = 2

\* A ship that is not active was refused.
InactiveRefused == twin.pc = "turn" /\ events # <<>> /\ events[1][3] = "PermissionError" /\ events[1][2] \in DOMAIN twin.turn.battle

\* The order of the start is kept although the ships have moved out of it.
OrderOutlivesMoves == twin.pc = "turn" /\ twin.turn.activation.order # ship_ids_sorted(twin.turn.battle)

\* ------------------------------------------------------------------
\* tactical/initiative.py : an Initiative is its rolls dict, side -> roll.
\* Initiative.roll re-rolls ties until the rolls are unique, so its
\* outcomes are the one-to-one assignments of rolls to the sides.
\* ------------------------------------------------------------------
MaxRoll == 2

SidesOf(battle) == {battle[sid].owner_id : sid \in DOMAIN battle}

initiative_roll(sides) == {rolls \in [sides -> 1..MaxRoll] : \A x, y \in sides : x # y => rolls[x] # rolls[y]}

RECURSIVE SortSidesLow(_, _)
SortSidesLow(rolls, S) ==
    IF S = {} THEN <<>>
    ELSE LET first == CHOOSE x \in S : \A y \in S : rolls[x] <= rolls[y]
         IN <<first>> \o SortSidesLow(rolls, S \ {first})

RECURSIVE SortSidesHigh(_, _)
SortSidesHigh(rolls, S) ==
    IF S = {} THEN <<>>
    ELSE LET first == CHOOSE x \in S : \A y \in S : -rolls[x] <= -rolls[y]
         IN <<first>> \o SortSidesHigh(rolls, S \ {first})

order_low_to_high(rolls) == SortSidesLow(rolls, DOMAIN rolls)

order_ascending(rolls) == SortSidesLow(rolls, DOMAIN rolls)

order_high_to_low(rolls) == SortSidesHigh(rolls, DOMAIN rolls)

\* ------------------------------------------------------------------
\* tactical/encounter.py : an Encounter is a record with the fields of
\* the dataclass; its dicts are functions on the keys they hold.
\* ------------------------------------------------------------------
MaxSubphases == 2
MaxSpend == 1
MaxShips == 3
MaxHits == 3
MaxTotalHits == 9
MaxDamage == 2
MaxBonus == 1

ceil_div_floor(a, b) == IF b <= 0 THEN Raised("ValueError") ELSE IF a <= 0 THEN Returned(0) ELSE Returned(a \div b)

ceil_div(a, b) ==
    IF b <= 0 THEN Raised("ValueError")
    ELSE IF a <= 0 THEN Returned(0)
    ELSE Returned((a + b - 1) \div b)

DictGetOr(d, k, default) == IF k \in DOMAIN d THEN d[k] ELSE default

movement_side_order(enc) == order_low_to_high(enc.initiative)

combat_side_order(enc) == order_high_to_low(enc.initiative)

active_side(enc) ==
    LET order == movement_side_order(enc)
    IN IF order = <<>> THEN Raised("ValueError")
       ELSE Returned(order[(enc.active_side_index % Len(order)) + 1])

active_combat_side(enc) ==
    LET order == combat_side_order(enc)
    IN IF order = <<>> THEN Raised("ValueError")
       ELSE Returned(order[(enc.active_combat_side_index % Len(order)) + 1])

ships_for_side(enc, side_id) == SortShipIds(enc.battle, {sid \in DOMAIN enc.battle : enc.battle[sid].owner_id = side_id})

\* ShipSystems.movement_points: one MP per intact engine; the systems of
\* a ship are modelled by that count.
movement_points(systems) == systems.engines

capacity_for_ship(enc, ship_id) ==
    IF enc.battle[ship_id].systems.present
    THEN movement_points(enc.battle[ship_id].systems)
    ELSE DictGetOr(enc.mp_capacity_base, ship_id, enc.battle[ship_id].mp)

refresh_movement_subphase_mp(enc) ==
    LET caps == [sid \in DOMAIN enc.battle |-> capacity_for_ship(enc, sid)]
    IN [enc EXCEPT !.battle = [sid \in DOMAIN enc.battle |-> [enc.battle[sid] EXCEPT !.mp = caps[sid]]],
                   !.mp_start_this_subphase = caps,
                   !.mp_spent_this_subphase = EmptyDict]

required_spend_this_subphase(enc, ship_id) == ceil_div(DictGetOr(enc.mp_start_this_subphase, ship_id, 0), enc.movement_subphases)

spent_this_subphase(enc, ship_id) == DictGetOr(enc.mp_spent_this_subphase, ship_id, 0)

record_spend(enc, ship_id, delta_spent) ==
    LET add == IF delta_spent > 0 THEN delta_spent ELSE 0
        old == enc.mp_spent_this_subphase
    IN [sid \in (DOMAIN old) \cup {ship_id} |-> IF sid = ship_id THEN DictGetOr(old, ship_id, 0) + add ELSE old[sid]]

encounter_start(battle, rolls, movement_subphases) ==
    IF movement_subphases <= 0 THEN Raised("ValueError")
    ELSE Returned(refresh_movement_subphase_mp(
            [battle |-> battle, initiative |-> rolls, phase |-> "movement",
             movement_subphases |-> movement_subphases, movement_subphase_index |-> 0,
             active_side_index |-> 0,
             mp_capacity_base |-> [sid \in DOMAIN battle |-> battle[sid].mp],
             mp_start_this_subphase |-> EmptyDict, mp_spent_this_subphase |-> EmptyDict,
             spent_to_fire |-> {}, active_combat_side_index |-> 0]))

require_movement_phase(enc) == IF enc.phase # "movement" THEN Raised("ValueError") ELSE Returned("None")

require_active_side(enc, side_id) ==
    LET a == active_side(enc)
    IN IF a.err # "" THEN a
       ELSE IF side_id # a.v THEN Raised("PermissionError")
       ELSE Returned("None")

\* The checks that open move_ship_forward, turn_ship_left/right and
\* spend_mp: the phase, the active side, the ship and its owner.
movement_checks(enc, side_id, ship_id) ==
    IF require_movement_phase(enc).err # "" THEN require_movement_phase(enc)
    ELSE IF require_active_side(enc, side_id).err # "" THEN require_active_side(enc, side_id)
    ELSE IF ship_id \notin DOMAIN enc.battle THEN Raised("KeyError")
    ELSE IF enc.battle[ship_id].owner_id # side_id THEN Raised("PermissionError")
    ELSE Returned("None")

\* The encounter they return: the new battle, and before_mp - after_mp
\* of the ship recorded as spent.
spent_in(enc, ship_id, new_battle) == [enc EXCEPT !.battle = new_battle, !.mp_spent_this_subphase = record_spend(enc, ship_id, enc.battle[ship_id].mp - new_battle[ship_id].mp)]

enc_move_ship_forward(enc, side_id, ship_id, steps) ==
    LET ck == movement_checks(enc, side_id, ship_id)
    IN IF ck.err # "" THEN ck
       ELSE LET new_battle == move_ship_forward(enc.battle, ship_id, steps)
            IN IF new_battle.err # "" THEN new_battle
               ELSE Returned(spent_in(enc, ship_id, new_battle.v))

turn_ship_left(enc, side_id, ship_id, auto_spend) ==
    LET ck == movement_checks(enc, side_id, ship_id)
    IN IF ck.err # "" THEN ck
       ELSE LET new_ship == IF auto_spend THEN turn_left_auto(enc.battle[ship_id]) ELSE turn_left(enc.battle[ship_id])
            IN IF new_ship.err # "" THEN new_ship
               ELSE Returned(spent_in(enc, ship_id, with_ship(enc.battle, new_ship.v)))

turn_ship_right(enc, side_id, ship_id, auto_spend) ==
    LET ck == movement_checks(enc, side_id, ship_id)
    IN IF ck.err # "" THEN ck
       ELSE LET new_ship == IF auto_spend THEN turn_right_auto(enc.battle[ship_id]) ELSE turn_right(enc.battle[ship_id])
            IN IF new_ship.err # "" THEN new_ship
               ELSE Returned(spent_in(enc, ship_id, with_ship(enc.battle, new_ship.v)))

enc_spend_mp(enc, side_id, ship_id, amount) ==
    LET ck == movement_checks(enc, side_id, ship_id)
    IN IF ck.err # "" THEN ck
       ELSE LET new_ship == spend_mp(enc.battle[ship_id], amount)
            IN IF new_ship.err # "" THEN new_ship
               ELSE Returned(spent_in(enc, ship_id, with_ship(enc.battle, new_ship.v)))

\* The ships of the side that have not spent what the subphase requires.
Underspent(enc, side_id) == {sid \in SeqToSet(ships_for_side(enc, side_id)) : spent_this_subphase(enc, sid) < required_spend_this_subphase(enc, sid).v}

end_side_movement(enc, side_id) ==
    IF require_movement_phase(enc).err # "" THEN require_movement_phase(enc)
    ELSE IF require_active_side(enc, side_id).err # "" THEN require_active_side(enc, side_id)
    ELSE IF Underspent(enc, side_id) # {} THEN Raised("ValueError")
    ELSE LET order == movement_side_order(enc)
             next_side_index == enc.active_side_index + 1
             next_subphase == enc.movement_subphase_index + 1
         IN IF next_side_index < Len(order)
            THEN Returned([enc EXCEPT !.active_side_index = next_side_index])
            ELSE IF next_subphase < enc.movement_subphases
            THEN Returned(refresh_movement_subphase_mp([enc EXCEPT !.movement_subphase_index = next_subphase, !.active_side_index = 0, !.mp_spent_this_subphase = EmptyDict]))
            ELSE Returned([enc EXCEPT !.phase = "combat_large", !.active_side_index = 0, !.spent_to_fire = {}, !.active_combat_side_index = 0])

require_combat_large(enc) == IF enc.phase # "combat_large" THEN Raised("ValueError") ELSE Returned("None")

choose_unit_to_fire(enc, side_id, ship_id) ==
    IF require_combat_large(enc).err # "" THEN require_combat_large(enc)
    ELSE IF active_combat_side(enc).err # "" THEN active_combat_side(enc)
    ELSE IF side_id # active_combat_side(enc).v THEN Raised("PermissionError")
    ELSE IF ship_id \notin DOMAIN enc.battle THEN Raised("KeyError")
    ELSE IF enc.battle[ship_id].owner_id # side_id THEN Raised("PermissionError")
    ELSE IF ship_id \in enc.spent_to_fire THEN Raised("ValueError")
    ELSE Returned([enc EXCEPT !.spent_to_fire = enc.spent_to_fire \cup {ship_id}])

advance_combat_turn(enc) ==
    IF require_combat_large(enc).err # "" THEN require_combat_large(enc)
    ELSE LET order == combat_side_order(enc)
             next_idx == enc.active_combat_side_index + 1
         IN IF next_idx < Len(order)
            THEN Returned([enc EXCEPT !.active_combat_side_index = next_idx])
            ELSE IF (DOMAIN enc.battle) \subseteq enc.spent_to_fire
            THEN Returned([enc EXCEPT !.phase = "combat_small", !.spent_to_fire = {}, !.active_combat_side_index = 0])
            ELSE Returned([enc EXCEPT !.active_combat_side_index = 0])

\* ------------------------------------------------------------------
\* An Encounter and the calls made on it (SpecEncounter).  twin.enc is
\* the encounter the caller holds.
\* ------------------------------------------------------------------
\* a (side p1) has no MP at all; b (side p2) has one intact engine and
\* half a turn charge; c (side p2) has one MP, a turn cost it cannot
\* charge in two subphases, and a in the hex in front of it.
EncounterShips ==
    LET ships == << [Ship("a", "p1", <<0, 0>>, 0, 0, 2, 0) EXCEPT !.systems = NoSystems],
                    [Ship("b", "p2", <<5, 0>>, 3, 0, 2, 1) EXCEPT !.systems = Systems(1)],
                    [Ship("c", "p2", <<1, 0>>, 4, 1, 3, 0) EXCEPT !.systems = NoSystems] >>
    IN [sid \in ShipIdSet |-> ships[ShipIdRank(sid)]]

SideSet == SidesOf(EncounterShips)

InitEncounter ==
    /\ NoGame
    /\ events = <<>>
    /\ \E rolls \in initiative_roll(SideSet), n \in 1..MaxSubphases :
          twin = [pc |-> "encounter", enc |-> encounter_start(EncounterShips, rolls, n).v]

\* What the caller holds after a call on the encounter, and what it
\* has seen of the call: its arguments, or the exception raised.
HeldEnc(r) == IF r.err = "" THEN [twin EXCEPT !.enc = r.v] ELSE twin

Outcome(r, call) == IF r.err = "" THEN <<call>> ELSE << <<call[1], call[2], r.err>> >>

EncMoveShipForward ==
    /\ twin.pc = "encounter"
    /\ \E side_id \in SideSet, ship_id \in ShipIdSet, steps \in 1..MaxSpend :
          LET r == enc_move_ship_forward(twin.enc, side_id, ship_id, steps)
          IN /\ twin' = HeldEnc(r)
             /\ events' = Outcome(r, <<"move_ship_forward", side_id, "", ship_id, steps>>)
    /\ UNCHANGED tacticalRest

EncTurnShipLeft ==
    /\ twin.pc = "encounter"
    /\ \E side_id \in SideSet, ship_id \in ShipIdSet, auto_spend \in BOOLEAN :
          LET r == turn_ship_left(twin.enc, side_id, ship_id, auto_spend)
          IN /\ twin' = HeldEnc(r)
             /\ events' = Outcome(r, <<"turn_ship_left", side_id, "", ship_id, auto_spend>>)
    /\ UNCHANGED tacticalRest

EncTurnShipRight ==
    /\ twin.pc = "encounter"
    /\ \E side_id \in SideSet, ship_id \in ShipIdSet, auto_spend \in BOOLEAN :
          LET r == turn_ship_right(twin.enc, side_id, ship_id, auto_spend)
          IN /\ twin' = HeldEnc(r)
             /\ events' = Outcome(r, <<"turn_ship_right", side_id, "", ship_id, auto_spend>>)
    /\ UNCHANGED tacticalRest

EncSpendMP ==
    /\ twin.pc = "encounter"
    /\ \E side_id \in SideSet, ship_id \in ShipIdSet, amount \in 1..MaxSpend :
          LET r == enc_spend_mp(twin.enc, side_id, ship_id, amount)
          IN /\ twin' = HeldEnc(r)
             /\ events' = Outcome(r, <<"spend_mp", side_id, "", ship_id, amount>>)
    /\ UNCHANGED tacticalRest

EndSideMovement ==
    /\ twin.pc = "encounter"
    /\ \E side_id \in SideSet :
          LET r == end_side_movement(twin.enc, side_id)
          IN /\ twin' = HeldEnc(r)
             /\ events' = << <<"end_side_movement", side_id, r.err>> >>
    /\ UNCHANGED tacticalRest

ChooseUnitToFire ==
    /\ twin.pc = "encounter"
    /\ \E side_id \in SideSet, ship_id \in ShipIdSet :
          LET r == choose_unit_to_fire(twin.enc, side_id, ship_id)
          IN /\ twin' = HeldEnc(r)
             /\ events' = Outcome(r, <<"choose_unit_to_fire", side_id, "", ship_id>>)
    /\ UNCHANGED tacticalRest

AdvanceCombatTurn ==
    /\ twin.pc = "encounter"
    /\ LET r == advance_combat_turn(twin.enc)
       IN /\ twin' = HeldEnc(r)
          /\ events' = << <<"advance_combat_turn", "", r.err>> >>
    /\ UNCHANGED tacticalRest

NextEncounter ==
    \/ EncMoveShipForward
    \/ EncTurnShipLeft
    \/ EncTurnShipRight
    \/ EncSpendMP
    \/ EndSideMovement
    \/ ChooseUnitToFire
    \/ AdvanceCombatTurn

SpecEncounter == InitEncounter /\ [][NextEncounter]_vars

\* ------------------------------------------------------------------
\* Minimum spend per subphase (C26), over SpecEncounter
\* ------------------------------------------------------------------
\* The least k with k * b >= a, for a >= 0 and b >= 1.
CeilOf(a, b) == CHOOSE k \in 0..a : k * b >= a /\ \A j \in 0..a : j * b >= a => k <= j

\* The MP a ship has really spent since the subphase began.
MPSpent(enc, sid) == enc.mp_start_this_subphase[sid] - enc.battle[sid].mp

\* The side whose move it is: as many sides roll lower as have moved.
ActiveSideOf(enc) == CHOOSE s \in DOMAIN enc.initiative : Cardinality({x \in DOMAIN enc.initiative : enc.initiative[x] < enc.initiative[s]}) = enc.active_side_index

ShipsOfSide(enc, side) == {sid \in DOMAIN enc.battle : enc.battle[sid].owner_id = side}

Owing(enc, side) == {sid \in ShipsOfSide(enc, side) : MPSpent(enc, sid) < CeilOf(enc.mp_start_this_subphase[sid], enc.movement_subphases)}

IsTurnCall(e) == CallOf(e) \in {"turn_ship_left", "turn_ship_right"}

EndMovementStep ==
    LET enc == twin.enc
        e == events'[1]
    IN (enc.phase = "movement" /\ CallOf(e) = "end_side_movement") =>
          IF e[2] # ActiveSideOf(enc) THEN e[3] = "PermissionError" /\ twin' = twin
          ELSE IF Owing(enc, e[2]) # {} THEN e[3] = "ValueError" /\ twin' = twin
          ELSE Accepted(e)

\* What an accepted turn adds to the spend counted for its ship.
TurnSpendStep ==
    LET enc == twin.enc
        e == events'[1]
    IN (IsTurnCall(e) /\ Accepted(e)) =>
          LET s == enc.battle[e[4]]
              lacking == s.turn_cost - s.turn_charge
          IN /\ ~e[5] => lacking = 0
             /\ spent_this_subphase(twin'.enc, e[4]) = spent_this_subphase(enc, e[4]) + (IF e[5] THEN lacking ELSE 0)

\* The spend counted is the MP spent.
SpendCounted(enc) == enc.phase = "movement" => \A sid \in DOMAIN enc.battle : spent_this_subphase(enc, sid) = MPSpent(enc, sid)

\* C26: in a movement subphase end_side_movement by the side whose move
\* it is raises ValueError and changes nothing while a ship of the side
\* has spent less than ceil(MP at the start of the subphase /
\* movement_subphases) in the subphase, and is accepted once none has; a
\* free turn on a full charge adds nothing to the spend, MP auto-spent to
\* finish the charge of a turn is added.
C26_MinimumSpend == [][EndMovementStep /\ TurnSpendStep /\ SpendCounted(twin'.enc)]_vars

\* The side was refused although one of its two ships had spent its due.
C26_Witness ==
    /\ twin.pc = "encounter" /\ events # <<>> /\ twin.enc.phase = "movement"
    /\ events[1] = <<"end_side_movement", "p2", "ValueError">>
    /\ Owing(twin.enc, "p2") # {} /\ Owing(twin.enc, "p2") # ShipsOfSide(twin.enc, "p2")

\* A free turn taken before any MP was spent in the subphase.
FreeTurnNotCounted == twin.pc = "encounter" /\ events # <<>> /\ IsTurnCall(events[1]) /\ Accepted(events[1]) /\ ~events[1][5] /\ MPSpent(twin.enc, events[1][4]) = 0 /\ events[1][4] \in Owing(twin.enc, "p2")

\* An auto-spent turn that pays the due of its ship.
AutoTurnCounted == twin.pc = "encounter" /\ events # <<>> /\ IsTurnCall(events[1]) /\ Accepted(events[1]) /\ events[1][5] /\ MPSpent(twin.enc, events[1][4]) = 1 /\ events[1][4] \notin Owing(twin.enc, "p2")

\* The side ended its movement in the second subphase, all dues paid.
EndAccepted == twin.pc = "encounter" /\ events # <<>> /\ events[1] = <<"end_side_movement", "p2", "">> /\ twin.enc.movement_subphase_index = 1

\* A side that is not on the move is turned away before its spend is looked at.
InactiveSideRefused == twin.pc = "encounter" /\ events # <<>> /\ twin.enc.phase = "movement" /\ CallOf(events[1]) = "end_side_movement" /\ events[1][3] = "PermissionError"

\* ------------------------------------------------------------------
\* Phases of an encounter (C25), over SpecEncounter
\* ------------------------------------------------------------------
PhaseRank(p) == CASE p = "movement" -> 0 [] p = "combat_large" -> 1 [] p = "combat_small" -> 2 [] OTHER -> 3

HighestSide(enc) == CHOOSE s \in DOMAIN enc.initiative : \A x \in DOMAIN enc.initiative : enc.initiative[x] <= enc.initiative[s]

LowestSide(enc) == CHOOSE s \in DOMAIN enc.initiative : \A x \in DOMAIN enc.initiative : enc.initiative[x] >= enc.initiative[s]

\* The side whose fire it is: as many sides roll higher as have fired.
ActiveCombatSideOf(enc) == CHOOSE s \in DOMAIN enc.initiative : Cardinality({x \in DOMAIN enc.initiative : enc.initiative[x] > enc.initiative[s]}) = enc.active_combat_side_index

AllSpent(enc) == (DOMAIN enc.battle) \subseteq enc.spent_to_fire

LastSubphase(enc) == enc.movement_subphase_index = enc.movement_subphases - 1

IsMovementCall(e) == CallOf(e) \in {"move_ship_forward", "turn_ship_left", "turn_ship_right", "spend_mp"}

\* The phase never goes back and never skips.
PhaseForward == PhaseRank(twin'.enc.phase) \in {PhaseRank(twin.enc.phase), PhaseRank(twin.enc.phase) + 1} /\ PhaseRank(twin'.enc.phase) <= 2

\* COMBAT_LARGE begins exactly when the highest-rolling side ends its
\* movement in the last subphase.
EntersCombatLarge ==
    LET enc == twin.enc
        e == events'[1]
    IN (enc.phase = "movement" /\ twin'.enc.phase = "combat_large")
          <=> (enc.phase = "movement" /\ e = <<"end_side_movement", HighestSide(enc), "">> /\ LastSubphase(enc))

\* In a subphase the sides move from the lowest roll to the highest.
SidesMoveLowToHigh ==
    LET enc == twin.enc
        e == events'[1]
    IN /\ (enc.phase = "movement" /\ Accepted(e)) => e[2] = ActiveSideOf(enc)
       /\ (enc.phase = "movement" /\ Accepted(e) /\ IsMovementCall(e)) => twin'.enc.active_side_index = enc.active_side_index /\ twin'.enc.movement_subphase_index = enc.movement_subphase_index
       /\ (enc.phase = "movement" /\ Accepted(e) /\ CallOf(e) = "end_side_movement" /\ twin'.enc.phase = "movement") =>
             IF e[2] # HighestSide(enc)
             THEN /\ twin'.enc.movement_subphase_index = enc.movement_subphase_index
                  /\ enc.initiative[ActiveSideOf(twin'.enc)] > enc.initiative[e[2]]
                  /\ twin'.enc.active_side_index = enc.active_side_index + 1
             ELSE /\ twin'.enc.movement_subphase_index = enc.movement_subphase_index + 1
                  /\ ActiveSideOf(twin'.enc) = LowestSide(enc)

\* COMBAT_LARGE ends exactly when the cycle of the sides, highest roll
\* first, ends with every ship spent.
LeavesCombatLarge ==
    LET enc == twin.enc
        e == events'[1]
    IN /\ (enc.phase = "combat_large" /\ twin'.enc.phase = "combat_small")
             <=> (enc.phase = "combat_large" /\ CallOf(e) = "advance_combat_turn" /\ Accepted(e) /\ ActiveCombatSideOf(enc) = LowestSide(enc) /\ AllSpent(enc))
       /\ (enc.phase = "combat_large" /\ CallOf(e) = "advance_combat_turn" /\ twin'.enc.phase = "combat_large") =>
             /\ Accepted(e)
             /\ ActiveCombatSideOf(twin'.enc) = IF ActiveCombatSideOf(enc) = LowestSide(enc) THEN HighestSide(enc) ELSE LowestSide(enc)
             /\ twin'.enc.spent_to_fire = enc.spent_to_fire

\* A ship is spent to fire by its own side, on that side's fire, once.
SpentOnce ==
    LET enc == twin.enc
        e == events'[1]
    IN /\ (CallOf(e) = "choose_unit_to_fire" /\ Accepted(e)) =>
             /\ enc.phase = "combat_large" /\ e[2] = ActiveCombatSideOf(enc)
             /\ enc.battle[e[4]].owner_id = e[2]
             /\ e[4] \notin enc.spent_to_fire
             /\ twin'.enc.spent_to_fire = enc.spent_to_fire \cup {e[4]}
       /\ (enc.phase = "combat_large" /\ twin'.enc.phase = "combat_large") => enc.spent_to_fire \subseteq twin'.enc.spent_to_fire

\* C25: the phases of an encounter only move forward, MOVEMENT, then
\* COMBAT_LARGE, then COMBAT_SMALL; COMBAT_LARGE is entered exactly when
\* the last side of the low-to-high initiative order ends its movement in
\* the last movement subphase, the sides moving low-to-high in every
\* subphase; COMBAT_SMALL is entered only at the end of a high-to-low
\* cycle of the sides at which every ship has been spent to fire, and a
\* ship can be spent only once in a combat subphase.
C25_PhasesForward == [][PhaseForward /\ EntersCombatLarge /\ SidesMoveLowToHigh /\ LeavesCombatLarge /\ SpentOnce]_vars

\* COMBAT_SMALL reached after two movement subphases.
C25_Witness == twin.pc = "encounter" /\ twin.enc.phase = "combat_small" /\ twin.enc.movement_subphases = 2 /\ events # <<>> /\ CallOf(events[1]) = "advance_combat_turn" /\ Accepted(events[1])

\* COMBAT_LARGE entered on the end of movement of the highest-rolling side.
EnteredCombatLarge == twin.pc = "encounter" /\ twin.enc.phase = "combat_large" /\ events # <<>> /\ events[1] = <<"end_side_movement", HighestSide(twin.enc), "">> /\ twin.enc.spent_to_fire = {}

\* A cycle that ended with a ship unspent: COMBAT_LARGE goes on with the
\* highest-rolling side.
CycleStartsAgain == twin.pc = "encounter" /\ twin.enc.phase = "combat_large" /\ events # <<>> /\ CallOf(events[1]) = "advance_combat_turn" /\ twin.enc.active_combat_side_index = 0 /\ twin.enc.spent_to_fire # {} /\ ~AllSpent(twin.enc)

\* A ship already spent was refused.
SecondFireRefused == twin.pc = "encounter" /\ twin.enc.phase = "combat_large" /\ events # <<>> /\ events[1] = <<"choose_unit_to_fire", ActiveCombatSideOf(twin.enc), "ValueError">>

\* ------------------------------------------------------------------
\* The two marker tables (C31), over SpecFog
\* ------------------------------------------------------------------
\* Every pair of the forward table of viewer v is in the reverse table.
ForwardMirrored(v) == \A g \in DOMAIN MarkersOf(v) : MarkersOf(v)[g] \in DOMAIN GroupsByMarkerOf(v) /\ GroupsByMarkerOf(v)[MarkersOf(v)[g]] = g

\* Every pair of the reverse table of viewer v is in the forward table.
ReverseMirrored(v) == \A n \in DOMAIN GroupsByMarkerOf(v) : GroupsByMarkerOf(v)[n] \in DOMAIN MarkersOf(v) /\ MarkersOf(v)[GroupsByMarkerOf(v)[n]] = n

\* No two groups share a live marker, no two live markers name one group.
OneToOne(v) ==
    /\ \A g, h \in DOMAIN MarkersOf(v) : MarkersOf(v)[g] = MarkersOf(v)[h] => g = h
    /\ \A n, k \in DOMAIN GroupsByMarkerOf(v) : GroupsByMarkerOf(v)[n] = GroupsByMarkerOf(v)[k] => n = k

\* The live markers were all handed out by the counter.
BelowCounter(v) == \A n \in DOMAIN GroupsByMarkerOf(v) : 1 <= n /\ n < NextMarkerOf(v)

\* C31: in every reachable state and for every viewer the two marker
\* tables are mutually inverse, so each group has at most one live marker
\* and each live marker names exactly one group, and the index of every
\* live marker is strictly below the viewer's next_marker_index.
C31_MarkerTablesInverse == \A v \in PlayerSet : ForwardMirrored(v) /\ ReverseMirrored(v) /\ OneToOne(v) /\ BelowCounter(v)

\* Viewer A holds two live markers after a third was retired by a reveal,
\* and viewer B holds one of its own.
C31_Witness ==
    /\ Cardinality(DOMAIN MarkersOf("A")) = 2
    /\ NextMarkerOf("A") = 4
    /\ RevealedTo("A") # {}
    /\ Cardinality(DOMAIN GroupsByMarkerOf("B")) = 1

\* The same holds where the battles reveal (Spec) and where a saved game
\* is loaded (SpecPersist).
MarkerTablesInverseInPlay == C31_MarkerTablesInverse

\* ------------------------------------------------------------------
\* The reveal at combat start (C32), over Spec
\* ------------------------------------------------------------------
\* Battles in one submission lie in different hexes and combat moves no
\* group, so the groups in a hex when its combat starts are the groups the
\* movement phase left there.
PresentAtStart(h) == SeqToSet(groups_at(hist.ug_moved, h))

OwnersAtStart(h) == {hist.ug_moved[g].owner : g \in PresentAtStart(h)}

HandedToResolver == SeqToSet(hist.resolved)

RevealedSet(v) == IF v \in DOMAIN revealed_to THEN revealed_to[v] ELSE {}

\* C32: from the moment resolve_combat has taken up a hex that holds at
\* least two owners (so before its first volley) until the submission
\* returns, every owner present at combat start has every group that was in
\* the hex at combat start in its revealed set, whether or not the group is
\* still in the registry.
C32_RevealAtCombatStart ==
    \A h \in HandedToResolver :
        Cardinality(OwnersAtStart(h)) >= 2 =>
            \A o \in OwnersAtStart(h) : PresentAtStart(h) \subseteq RevealedSet(o)

\* A returned submission whose battle destroyed a group that both owners
\* still hold revealed.
C32_Witness ==
    /\ Submitted
    /\ \E h \in HandedToResolver :
          /\ Cardinality(OwnersAtStart(h)) >= 2
          /\ \E g \in PresentAtStart(h) :
                /\ g \notin DOMAIN unit_groups
                /\ \A o \in OwnersAtStart(h) : g \in RevealedSet(o)

\* The reveal is in place before the first volley of the battle.
RevealedBeforeFirstShot ==
    /\ pc = "round"
    /\ round_num = 0
    /\ \E o \in PlayerSet : Cardinality(RevealedSet(o)) >= 2

\* A revealed set never loses a group.
RevealPersists ==
    [][\A v \in DOMAIN revealed_to :
          v \in DOMAIN revealed_to' /\ revealed_to[v] \subseteq revealed_to[v]']_vars

\* ------------------------------------------------------------------
\* Damage application (C33): apply_hits_to_group called again and again
\* on one group, as the volleys of a battle do.  twin holds the group,
\* its ship count at the start and the hits applied so far; events holds
\* the last call as <<"apply_hits", hits, count before, damage before>>.
\* ------------------------------------------------------------------
HitTypes == {"Battleship", "Scout", "Raider"}

InitHits ==
    /\ NoGame
    /\ events = <<>>
    /\ \E t \in HitTypes, c \in 1..MaxShips :
          twin = [pc |-> "hits", g |-> UnitGroup("A", t, c, A_HOME),
                  count0 |-> c, total |-> 0]

\* The resolver skips a target whose count is 0 and removes a group the
\* moment its count reaches 0, so only a living group takes hits.
ApplyHits ==
    /\ twin.pc = "hits"
    /\ twin.g.count > 0
    /\ \E h \in 0..MaxHits :
          /\ twin.total + h <= MaxTotalHits
          /\ twin' = [twin EXCEPT !.g = apply_hits_to_group(twin.g, h),
                                  !.total = @ + h]
          /\ events' = << <<"apply_hits", h, twin.g.count, twin.g.damage>> >>
    /\ UNCHANGED tacticalRest

NextHits == ApplyHits

SpecHits == InitHits /\ [][NextHits]_vars

EffectiveHull(g) == Max2(1, g_hull(g))

DamageInRange(g) == g.count > 0 => 0 <= g.damage /\ g.damage < EffectiveHull(g)

\* Ships destroyed by h hits on a group with damage d, hull H and count c.
Kills(c, d, h, H) == Least(c, (d + h) \div H)

LastCallKills ==
    events # <<>> =>
        LET h == events[1][2]
            c == events[1][3]
            d == events[1][4]
            H == EffectiveHull(twin.g)
            k == Kills(c, d, h, H)
        IN /\ twin.g.count = c - k
           /\ twin.g.damage = IF k = c THEN 0 ELSE (d + h) % H

TotalKills ==
    twin.count0 - twin.g.count =
        Least(twin.count0, twin.total \div EffectiveHull(twin.g))

\* C33: a surviving group has 0 <= damage < effective hull; h hits on a
\* group with damage d, hull H and count c destroy min(c, (d + h) div H)
\* ships, every kill setting the counter back to 0; over a whole sequence
\* of calls the ships lost are min(count, total hits div H), so with hull 3
\* three hits in all destroy exactly one ship.
C33_DamageInRange ==
    twin.pc = "hits" =>
        /\ DamageInRange(twin.g)
        /\ LastCallKills
        /\ TotalKills
        /\ (EffectiveHull(twin.g) = 3 /\ twin.total = 3 =>
                twin.g.count = twin.count0 - 1)

\* Three hits on a hull-3 group of two ships, the third arriving in a
\* call of its own on a ship with damage 2: one ship lost, counter at 0.
C33_Witness ==
    /\ twin.pc = "hits"
    /\ EffectiveHull(twin.g) = 3
    /\ twin.count0 = 2
    /\ twin.total = 3
    /\ events # <<>>
    /\ events[1][2] = 1
    /\ events[1][4] = 2
    /\ twin.g.count = 1
    /\ twin.g.damage = 0

\* A call whose hits outnumber what the group can take: the group dies
\* and the surplus is dropped.
HitsOutliveGroup ==
    /\ twin.pc = "hits"
    /\ events # <<>>
    /\ twin.g.count = 0
    /\ events[1][4] + events[1][2] > events[1][3] * EffectiveHull(twin.g)

\* The same bound on damage for every group of the registry, in play.
DamageInRangeInPlay == \A gid \in DOMAIN unit_groups : DamageInRange(unit_groups[gid])

\* ------------------------------------------------------------------
\* No empty group in the registry (C34), over SpecActions
\* ------------------------------------------------------------------
\* An event of the given kind about group g is in the log of the call.
Logged(kind, g) == \E i \in 1..Len(events) : events[i][1] = kind /\ events[i][2] = g

NotedDestroyed(g) ==
    \E i \in 1..Len(events) :
        /\ events[i][1] = "NOTE"
        /\ events[i][2] = "destroyed during interception"
        /\ events[i][3] = g

\* C34: every group of the registry has at least one ship, in every state:
\* after each volley, each move with its interceptions, each exploration
\* phase and each manual colonisation, and so after every completed
\* submit_orders and resolve_combat; the operation that takes the last
\* ship of a group takes the group out of the registry.
C34_NoEmptyGroup == \A gid \in DOMAIN unit_groups : unit_groups[gid].count >= 1

\* A colony founded with the last ship of a group: the group is gone.
C34_Witness ==
    /\ events # <<>>
    /\ events[1][1] = "manual_colonize"
    /\ events[1][3] = "colonized"
    /\ events[1][2] \notin DOMAIN unit_groups
    /\ \E g \in DOMAIN unit_groups : UnitTypes[unit_groups[g].unit_type].can_colonize

\* A group destroyed in a battle of a returned submission is gone.
DestroyedGroupGone ==
    /\ Submitted
    /\ \E g \in GroupIds : Logged("DESTROYED", g) /\ g \notin DOMAIN unit_groups

\* A group destroyed by interception is gone.
InterceptedGroupGone ==
    /\ Submitted
    /\ \E g \in GroupIds : NotedDestroyed(g) /\ g \notin DOMAIN unit_groups

\* A hit group that keeps ships stays in the registry.
HitGroupStays ==
    \E g \in DOMAIN unit_groups : Logged("TAKES", g) /\ unit_groups[g].count >= 1

\* ------------------------------------------------------------------
\* One call of resolve_combat on a hex with several volleys per round.
\* Player B's pickets always hit (to-hit 1), so every battle ends after a
\* few rounds; player A's dice can hit or miss.
\* ------------------------------------------------------------------
WithTactics(g, t) == [g EXCEPT !.tactics = t]

\* Four volleys per round: (B, 0), (D, 0), (E, 1) with a group of either
\* side, (E, 0).
LadderGroups ==
    [A1 |-> UnitGroup("A", "Battleship", 1, BattleHex),
     A2 |-> UnitGroup("A", "Raider", 1, BattleHex),
     A3 |-> WithTactics(UnitGroup("A", "Scout", 1, BattleHex), 1),
     B1 |-> WithTactics(UnitGroup("B", "Picket", 1, BattleHex), 1),
     B2 |-> UnitGroup("B", "Picket", 2, BattleHex)]

\* Two groups of one side in the same volley, and a decoy next to them.
SalvoGroups ==
    [A1 |-> UnitGroup("A", "Battleship", 2, BattleHex),
     A3 |-> UnitGroup("A", "Decoy", 1, BattleHex),
     B1 |-> UnitGroup("B", "Picket", 2, BattleHex),
     B2 |-> UnitGroup("B", "Picket", 1, BattleHex)]

VolleyScenarios == {LadderGroups, SalvoGroups}

InitVolley ==
    /\ active_player = "A"
    /\ turn_number = 1
    /\ unit_groups \in VolleyScenarios
    /\ colonies = ScenarioColonies
    /\ game_map = ScenarioMap
    /\ revealed_to = EmptyDict
    /\ marker_for_viewer = EmptyDict
    /\ group_for_viewer_marker = EmptyDict
    /\ next_marker_index = EmptyDict
    /\ pending_orders = EmptyDict
    /\ events = <<>>
    /\ pc = "combat"
    /\ order_idx = 1
    /\ combat_sites = {BattleHex}
    /\ battles = collect_battles(unit_groups, {BattleHex})
    /\ round_num = 0
    /\ volley_num = 0
    /\ roster = {}
    /\ queued = 0
    /\ hist = [NoHist EXCEPT !.ug0 = unit_groups, !.moved = TRUE,
                             !.ug_moved = unit_groups]
    /\ twin = NoTwin

NextVolley ==
    \/ CombatBegin
    \/ RoundBegin
    \/ VolleyFire
    \/ RoundEnd

SpecVolley == InitVolley /\ [][NextVolley]_vars

\* ------------------------------------------------------------------
\* Volley order within a round (C35), read off the log of the call
\* ------------------------------------------------------------------
IsEvent(i, kind) == events[i][1] = kind

\* The round in which event i was logged.
RoundOf(i) == Cardinality({k \in 1..i : IsEvent(k, "Round begins")})

\* (initiative rank, -tactics) announced by a volley line, and that of a
\* group as the battle found it.
AnnouncedKey(i) == <<init_rank(events[i][3]), 0 - events[i][4]>>

FiringKey(g) == <<init_rank(g_initiative(hist.ug0[g])), 0 - hist.ug0[g].tactics>>

\* The volley line under which shot line i was logged.
VolleyLineOf(i) ==
    CHOOSE k \in 1..i : /\ IsEvent(k, "Volley")
                        /\ \A m \in (k + 1)..i : ~IsEvent(m, "Volley")

VolleyLines == {i \in 1..Len(events) : IsEvent(i, "Volley")}

ShotLines == {i \in 1..Len(events) : IsEvent(i, "SHOT")}

VolleysAscend ==
    \A i, j \in VolleyLines :
        (i < j /\ RoundOf(i) = RoundOf(j)) => TupleLess(AnnouncedKey(i), AnnouncedKey(j))

ShotsUnderOwnKey ==
    \A i \in ShotLines : FiringKey(events[i][2]) = AnnouncedKey(VolleyLineOf(i))

NeverFiresAfterLater ==
    \A i, j \in ShotLines :
        (i < j /\ RoundOf(i) = RoundOf(j)) =>
            ~TupleLess(FiringKey(events[j][2]), FiringKey(events[i][2]))

FiresOncePerRound ==
    \A i, j \in ShotLines :
        (i # j /\ RoundOf(i) = RoundOf(j)) => events[i][2] # events[j][2]

\* C35: within each round the volleys come in strictly increasing order of
\* (initiative letter, A first; then tactics, higher first), every shot is
\* fired in the volley of its group's own key, no group fires after a
\* group with a later key has fired in that round, and no group fires
\* twice in a round.
C35_VolleyOrder ==
    /\ VolleysAscend
    /\ ShotsUnderOwnKey
    /\ NeverFiresAfterLater
    /\ FiresOncePerRound

\* A round with four volleys, the third for tactics 1 and the fourth for
\* tactics 0 of the same letter.
C35_Witness ==
    \E i, j \in VolleyLines :
        /\ RoundOf(i) = RoundOf(j)
        /\ events[i][2] = 3 /\ events[i][3] = "E" /\ events[i][4] = 1
        /\ events[j][2] = 4 /\ events[j][3] = "E" /\ events[j][4] = 0

\* A group fires again in a second round.
FiresAgainNextRound ==
    \E i, j \in ShotLines :
        RoundOf(i) < RoundOf(j) /\ events[i][2] = events[j][2]

\* ------------------------------------------------------------------
\* Simultaneous volleys (C36), over SpecVolley
\* ------------------------------------------------------------------
\* The step is one volley.
VolleyStep == pc = "volley" /\ volley_num' = volley_num + 1

\* The lines the step adds to the log.
NewLines == SubSeq(events', Len(events) + 1, Len(events'))

\* Groups of the battle hex alive when the volley starts.
AliveAtStart ==
    {g \in DOMAIN unit_groups :
        unit_groups[g].location = Head(battles) /\ unit_groups[g].count > 0}

KeyNow(g) == <<init_rank(g_initiative(unit_groups[g])), 0 - unit_groups[g].tactics>>

\* The groups of this volley: those of the roster alive at volley start
\* with the least key.
FiringNow ==
    {g \in roster \cap AliveAtStart :
        \A o \in roster \cap AliveAtStart : ~TupleLess(KeyNow(o), KeyNow(g))}

EnemiesAtStart(g) == {e \in AliveAtStart : unit_groups[e].owner # unit_groups[g].owner}

\* The target focus fire picks for g among the groups alive at volley start.
TargetAtStart(g) ==
    CHOOSE e \in EnemiesAtStart(g) :
        \A o \in EnemiesAtStart(g) \ {e} :
            TupleLess(FocusKey(unit_groups, e), FocusKey(unit_groups, o))

NewShots == {i \in 1..Len(NewLines) : NewLines[i][1] = "SHOT"}

NewTakes == {i \in 1..Len(NewLines) : NewLines[i][1] = "TAKES"}

\* Hits credited to target t by the shot lines of a log.
RECURSIVE HitsLogged(_, _)
HitsLogged(lines, t) ==
    IF lines = <<>> THEN 0
    ELSE (IF Head(lines)[1] = "SHOT" /\ Head(lines)[3] = t THEN Head(lines)[6] ELSE 0)
         + HitsLogged(Tail(lines), t)

Targeted == {NewLines[i][3] : i \in NewShots}

\* Every group of the volley fires once, at its target of volley start,
\* with as many shots as it had ships at volley start; nobody else fires.
AllFireAtSnapshot ==
    /\ \A g \in FiringNow :
          \E i \in NewShots :
              /\ NewLines[i][2] = g
              /\ NewLines[i][3] = TargetAtStart(g)
              /\ NewLines[i][4] = unit_groups[g].count
              /\ \A j \in NewShots : NewLines[j][2] = g => j = i
    /\ \A i \in NewShots : NewLines[i][2] \in FiringNow

\* The hits are applied after the last shot, summed per target.
AppliedAfterAll ==
    /\ \A i \in NewShots, j \in NewTakes : i < j
    /\ \A t \in DOMAIN unit_groups :
          LET g == unit_groups[t]
              h == HitsLogged(NewLines, t)
              k == Kills(g.count, g.damage, h, EffectiveHull(g))
          IN IF t \notin Targeted
             THEN t \in DOMAIN unit_groups' /\ unit_groups'[t] = g
             ELSE IF k = g.count
             THEN t \notin DOMAIN unit_groups'
             ELSE /\ t \in DOMAIN unit_groups'
                  /\ unit_groups'[t] =
                        [g EXCEPT !.count = g.count - k,
                                  !.damage = (g.damage + h) % EffectiveHull(g)]

\* C36: in every volley each group of the volley alive at its start fires
\* all its shots at the target chosen among the groups alive at volley
\* start, and the hits, summed per target over the volley, are applied
\* after the last shot: damage of the volley stops or redirects no shot of
\* the volley.
C36_SimultaneousVolley == [][VolleyStep => AllFireAtSnapshot /\ AppliedAfterAll]_vars

\* Lines of the last volley of the log.
LastVolleyLine ==
    CHOOSE k \in VolleyLines : \A m \in VolleyLines : m <= k

\* The volley just fired destroyed a group that fired in it, after the
\* group that hit it.
C36_Witness ==
    /\ pc = "volley"
    /\ VolleyLines # {}
    /\ \E i, j \in ShotLines :
          /\ LastVolleyLine < i /\ i < j
          /\ events[i][3] = events[j][2]
          /\ events[i][6] > 0
          /\ events[j][2] \notin DOMAIN unit_groups

\* Two groups of one volley put more hits on one target than it had hull
\* left: the second did not look for another target.
Overkill ==
    /\ pc = "volley"
    /\ \E i, j \in ShotLines :
          /\ VolleyLines # {} /\ LastVolleyLine < i /\ i < j
          /\ events[i][3] = events[j][3]
          /\ events[i][6] > 0 /\ events[j][6] > 0
          /\ events[i][3] \notin DOMAIN unit_groups
          /\ hist.ug0[events[i][3]].count = 1
          /\ EffectiveHull(hist.ug0[events[i][3]]) = 1

\* ------------------------------------------------------------------
\* Focus-fire targeting (C37): focus_fire(attacker, enemies) asked about
\* every subset of a registry of three groups of any mix of hull,
\* damage, defense and attack.
\* ------------------------------------------------------------------
NoTarget == [none |-> TRUE, gid |-> ""]

Target(gid) == [none |-> FALSE, gid |-> gid]

\* focus_fire with its "if not enemies: return None".
focus_fire_or_none(ug, enemies) ==
    IF enemies = {} THEN NoTarget ELSE Target(focus_fire(ug, enemies))

TargetIds == {"A2", "B1", "B2"}

TargetTypes == {"Battleship", "Raider", "Scout"}

\* Groups as a battle can find them: damage below the hull.
TargetGroups ==
    {[UnitGroup("B", t, 1, BattleHex) EXCEPT !.damage = d, !.defense_bonus = b] :
        t \in TargetTypes, d \in 0..MaxDamage, b \in 0..MaxBonus}

InitTarget ==
    /\ NoGame
    /\ events = <<>>
    /\ \E ug \in [TargetIds -> {g \in TargetGroups : g.damage < g_hull(g)}] :
          twin = [pc |-> "target", ug |-> ug, called |-> FALSE,
                  enemies |-> {}, result |-> NoTarget]

FocusFire ==
    /\ twin.pc = "target"
    /\ \E S \in SUBSET TargetIds :
          twin' = [twin EXCEPT !.called = TRUE, !.enemies = S,
                               !.result = focus_fire_or_none(twin.ug, S)]
    /\ UNCHANGED <<events, tacticalRest>>

NextTarget == FocusFire

SpecTarget == InitTarget /\ [][NextTarget]_vars

RemainingHull(g) == g_hull(g) - g.damage

\* a comes before b under (remaining hull, defense, -attack, group id).
Preferred(ug, a, b) ==
    \/ RemainingHull(ug[a]) < RemainingHull(ug[b])
    \/ /\ RemainingHull(ug[a]) = RemainingHull(ug[b])
       /\ \/ g_defense(ug[a]) < g_defense(ug[b])
          \/ /\ g_defense(ug[a]) = g_defense(ug[b])
             /\ \/ g_attack(ug[a]) > g_attack(ug[b])
                \/ /\ g_attack(ug[a]) = g_attack(ug[b])
                   /\ GroupRank[a] < GroupRank[b]

\* C37: asked about a non-empty set of enemies focus_fire returns the one
\* that comes before every other under (remaining hull, lowest defense,
\* highest attack, group id); asked about the empty set it returns None.
C37_FocusFire ==
    (twin.pc = "target" /\ twin.called) =>
        IF twin.enemies = {}
        THEN twin.result.none
        ELSE /\ ~twin.result.none
             /\ twin.result.gid \in twin.enemies
             /\ \A o \in twin.enemies \ {twin.result.gid} :
                   Preferred(twin.ug, twin.result.gid, o)

\* A damaged battleship is picked ahead of an undamaged one with a
\* smaller id.
C37_Witness ==
    /\ twin.pc = "target"
    /\ twin.called
    /\ twin.enemies = {"A2", "B1"}
    /\ twin.ug["A2"].unit_type = "Battleship" /\ twin.ug["A2"].damage = 0
    /\ twin.ug["B1"].unit_type = "Battleship" /\ twin.ug["B1"].damage = 2
    /\ twin.ug["A2"].defense_bonus = twin.ug["B1"].defense_bonus
    /\ twin.result = Target("B1")

\* Equal hull and defense: the higher attack is picked.
HigherAttackPicked ==
    /\ twin.pc = "target"
    /\ twin.called
    /\ twin.enemies = {"A2", "B1"}
    /\ twin.ug["A2"].unit_type = "Scout" /\ twin.ug["B1"].unit_type = "Raider"
    /\ twin.ug["A2"].defense_bonus = twin.ug["B1"].defense_bonus
    /\ twin.result = Target("B1")

\* All equal: the smaller id is picked.
SmallerIdPicked ==
    /\ twin.pc = "target"
    /\ twin.called
    /\ twin.enemies = TargetIds
    /\ \A a \in TargetIds : twin.ug[a] = twin.ug["A2"]
    /\ twin.result = Target("A2")

NoneForNoEnemies ==
    twin.pc = "target" /\ twin.called /\ twin.enemies = {} /\ twin.result = NoTarget

\* ------------------------------------------------------------------
\* Non-combatants in battle (C38), over SpecVolley
\* ------------------------------------------------------------------
NonCombatant(g) == ~is_combatant(hist.ug0[g])

\* C38: no shot line names a non-combatant group as attacker, and no hit
\* is credited to one.
C38_NonCombatantsNeverFire ==
    \A i \in ShotLines : ~NonCombatant(events[i][2])

\* A decoy has fired and scored a hit.
DecoyScoresHit ==
    \E i \in ShotLines :
        /\ NonCombatant(events[i][2])
        /\ events[i][6] > 0

\* Every shot of a non-combatant of these registries hits: attack 0 gives
\* to-hit max(1, 0 - defense) = 1.
NonCombatantAlwaysHits ==
    \A i \in ShotLines :
        NonCombatant(events[i][2]) =>
            events[i][5] = 1 /\ events[i][6] = events[i][4]

\* ------------------------------------------------------------------
\* One combat per contested hex (C39): two scouts of A next to two
\* pickets of B, so that one submission can halt both movers in one hex
\* or open a battle in each of two hexes.
\* ------------------------------------------------------------------
SitesGroups ==
    ("A1" :> UnitGroup("A", "Scout", 1, A_HOME))
    @@ ("A2" :> UnitGroup("A", "Scout", 1, <<1, 1>>))
    @@ ("B1" :> UnitGroup("B", "Picket", 1, <<1, 0>>))
    @@ ("B2" :> UnitGroup("B", "Picket", 1, B_HOME))

InitSites ==
    /\ active_player = Players[1]
    /\ turn_number = 1
    /\ unit_groups = SitesGroups
    /\ colonies = ScenarioColonies
    /\ game_map = ScenarioMap
    /\ revealed_to = EmptyDict
    /\ marker_for_viewer = EmptyDict
    /\ group_for_viewer_marker = EmptyDict
    /\ next_marker_index = EmptyDict
    /\ pending_orders = EmptyDict
    /\ events = <<>>
    /\ pc = "idle"
    /\ order_idx = 1
    /\ combat_sites = {}
    /\ battles = <<>>
    /\ round_num = 0
    /\ volley_num = 0
    /\ roster = {}
    /\ queued = 0
    /\ hist = NoHist
    /\ twin = NoTwin

SpecSites == InitSites /\ [][Next]_vars

\* The "Combat at" lines of the log of the call.
CombatLines == {i \in 1..Len(events) : IsEvent(i, "Combat at")}

\* C39: within one submission the hexes handed to resolve_combat come in
\* strictly increasing (q, r) order, so no hex is handed over twice, and
\* each of them is a combat site of the submission.
C39_OneCombatPerHex ==
    /\ \A i, j \in 1..Len(hist.resolved) :
          i < j => HexLess(hist.resolved[i], hist.resolved[j])
    /\ \A i, j \in CombatLines : i < j => HexLess(events[i][2], events[j][2])
    /\ (pc # "idle" \/ Submitted) =>
          {events[i][2] : i \in CombatLines} = SeqToSet(hist.resolved)

\* Orders that ended halted in hex h.
HaltedIn(h) == {i \in 1..Len(hist.moves) : hist.moves[i].sites = {h}}

\* Both movers were halted in one hex, the convergence scan finds it too,
\* and the returned submission fought there once.
C39_Witness ==
    /\ Submitted
    /\ \E h \in MapHexes :
          /\ Cardinality(HaltedIn(h)) = 2
          /\ h \in find_contested_hexes(hist.ug_moved)
          /\ hist.resolved = <<h>>
          /\ Cardinality(CombatLines) = 1

\* Two battles in one submission, the hex that became a site second
\* fought first.
SitesFoughtInHexOrder ==
    /\ Submitted
    /\ Len(hist.moves) = 2
    /\ hist.moves[1].sites = {B_HOME}
    /\ hist.moves[2].sites = {<<1, 0>>}
    /\ hist.resolved = << <<1, 0>>, B_HOME >>

\* ------------------------------------------------------------------
\* Movement allowance per submission (C40)
\* ------------------------------------------------------------------
\* Hexes group g has stepped through in the orders applied so far.
RECURSIVE StepsOf(_, _)
StepsOf(moves, g) ==
    IF moves = <<>> THEN 0
    ELSE (IF Head(moves).gid = g /\ Head(moves).ok THEN Len(Head(moves).trail) ELSE 0)
         + StepsOf(Tail(moves), g)

\* C40: over the Move orders applied to one group in one submission the
\* group steps through at most as many hexes as its movement allowance.
C40_WithinAllowance ==
    \A g \in DOMAIN hist.ug0 :
        StepsOf(hist.moves, g) <= g_movement(hist.ug0[g])

\* A group with movement 1 has moved twice in one returned submission and
\* stands two hexes from where it started.
SlowGroupMovedTwice ==
    /\ Submitted
    /\ \E g \in DOMAIN hist.ug0 \cap DOMAIN unit_groups :
          /\ g_movement(hist.ug0[g]) = 1
          /\ StepsOf(hist.moves, g) = 2
          /\ hex_distance(hist.ug0[g].location, unit_groups[g].location) = 2

\* Each single order stays within the allowance.
EachOrderWithinAllowance ==
    \A i \in 1..Len(hist.moves) :
        hist.moves[i].ok =>
            Len(hist.moves[i].trail) <= g_movement(hist.moves[i].before[hist.moves[i].gid])

====
